---- MODULE Spec2Model ----
(***************************************************************************)
(* getifs: the platform message decoders (Linux netlink, BSD routing       *)
(* socket, Windows adapter table) and the route-selection algorithms.      *)
(* Receive buffers are sequences of bytes; every decoder reads them the    *)
(* way the source does (offsets, native-endian integers, alignment).       *)
(***************************************************************************)
EXTENDS Integers, Sequences, FiniteSets, TLC

(* ------------------------------------------------------------------ *)
(* Bounds of the model                                                  *)
(* ------------------------------------------------------------------ *)
\* messages the kernel puts in one dump before its terminator
MaxMsgs == 2
\* the same for the address dump that netlink_best_local_addrs asks for last
MaxNestedMsgs == 1
\* at most this many links in the dump of each of two concurrent callers
MaxLinksEach == 1

(* ------------------------------------------------------------------ *)
(* Program constants                                                    *)
(* ------------------------------------------------------------------ *)
NLMSG_HDRLEN == 16
NLMSG_ALIGNTO == 4
RTA_ALIGNTO == 4
RtAttrSIZE == 4
IfInfoMessageHeaderSIZE == 16
IfNetMessageHeaderSIZE == 8
RtmMessageHeaderSIZE == 12
MAC_ADDRESS_SIZE == 6
ReqSeq == 1

NLMSG_NOOP == 1
NLMSG_ERROR == 2
NLMSG_DONE == 3
RTM_NEWLINK == 16
RTM_NEWADDR == 20
RTM_NEWROUTE == 24
IFLA_ADDRESS == 1
IFLA_IFNAME == 3
IFLA_MTU == 4
IFA_ADDRESS == 1
IFA_LOCAL == 2
RTA_DST == 1
RTA_OIF == 4
RTA_GATEWAY == 5
RTA_PRIORITY == 6
AF_UNSPEC == 0
AF_INET == 2
AF_INET6 == 10
ARPHRD_ETHER == 1
ARPHRD_TUNNEL == 768
ARPHRD_TUNNEL6 == 769
ARPHRD_IPGRE == 778
ARPHRD_IP6GRE == 823
RT_TABLE_MAIN == 254
RTF_UP == 1
RTF_GATEWAY == 2
RTF_HOST == 4
\* apple: 0x1000000
RTF_IFSCOPE == 16777216

\* the BSD backend, as built for an apple target
KERNAL_ALIGN == 4
RTM_VERSION == 5
RTM_GET == 4
BSD_RTM_NEWADDR == 12
RTM_IFINFO == 14
BSD_AF_INET6 == 30
AF_LINK == 18
BSD_RTA_GATEWAY == 2
RTAX_NETMASK == 2
RTAX_IFA == 5
RTAX_BRD == 7
RTAX_MAX == 8
SOCK4 == 16
SOCK6 == 28
OFF4 == 4
OFF6 == 8
HEADER_SIZE == 20
RtMsghdrSIZE == 92
IfMsghdrSIZE == 112
SockaddrSIZE == 16

(* ------------------------------------------------------------------ *)
(* Byte buffers: slices and native-endian (little-endian) integers      *)
(* ------------------------------------------------------------------ *)
\* &b[n..]
Drop(b, n) == SubSeq(b, n + 1, Len(b))
\* &b[..n]
Take(b, n) == SubSeq(b, 1, n)
\* &b[from..to]
Slice(b, from, to) == SubSeq(b, from + 1, to)

\* u16::from_ne_bytes(b[o..o+2])
Rd16(b, o) == b[o + 1] + 256 * b[o + 2]
\* u32::from_ne_bytes(b[o..o+4]).  The model's integers are narrower than a
\* u32: a value of 2^30 or more reads as 2^30.  Such a value is only ever
\* compared with a buffer length, a sequence number, a port id or an
\* interface index, all far smaller, so every comparison the code makes keeps
\* its outcome.
Rd32(b, o) ==
  IF b[o + 4] >= 64 THEN 1073741824
  ELSE b[o + 1] + 256 * b[o + 2] + 65536 * b[o + 3] + 16777216 * b[o + 4]

\* A u32 that is compared but never added to (a route metric) keeps its full
\* width as the pair (high 16 bits, low 16 bits).
Rd32Wide(b, o) == << Rd16(b, o + 2), Rd16(b, o) >>
\* u32::MAX
U32MAX == << 65535, 65535 >>
\* a < b on u32
U32Lt(a, b) == a[1] < b[1] \/ (a[1] = b[1] /\ a[2] < b[2])

Le16(n) == << n % 256, (n \div 256) % 256 >>
Le32(n) == << n % 256, (n \div 256) % 256, (n \div 65536) % 256, (n \div 16777216) % 256 >>

Zeros(n) == [i \in 1..n |-> 0]
AllZero(b) == \A i \in 1..Len(b) : b[i] = 0

\* bitwise and of two small flag words, bit by bit
RECURSIVE BitAnd(_, _)
BitAnd(a, b) ==
  IF a = 0 \/ b = 0 THEN 0
  ELSE (a % 2) * (b % 2) + 2 * BitAnd(a \div 2, b \div 2)

\* Round the length of a netlink message up to align it properly.
nlm_align_of(msg_len) == ((msg_len + NLMSG_ALIGNTO - 1) \div NLMSG_ALIGNTO) * NLMSG_ALIGNTO

\* Round the length of a netlink route attribute up to align it properly.
rta_align_of(attrlen) == ((attrlen + RTA_ALIGNTO - 1) \div RTA_ALIGNTO) * RTA_ALIGNTO

decode_nlmsghdr(src) ==
  [ nlmsg_len   |-> Rd32(src, 0),
    nlmsg_type  |-> Rd16(src, 4),
    nlmsg_flags |-> Rd16(src, 6),
    nlmsg_seq   |-> Rd32(src, 8),
    nlmsg_pid   |-> Rd32(src, 12) ]

\* the attribute header at the head of an attribute area
RtAttr(b) == [ len |-> Rd16(b, 0), ty |-> Rd16(b, 2) ]

\* IfInfoMessageHeader::parse on a payload of at least SIZE bytes
IfInfoMessageHeader(src) ==
  [ family |-> src[1],
    ty     |-> Rd16(src, 2),
    index  |-> Rd32(src, 4),
    flags  |-> Rd32(src, 8),
    change |-> Rd32(src, 12) ]

\* the fixed header of an address message
IfNetMessageHeader(src) ==
  [ family     |-> src[1],
    prefix_len |-> src[2],
    flags      |-> src[3],
    scope      |-> src[4],
    index      |-> Rd32(src, 4) ]

\* RtmMessageHeader::parse on a payload of at least SIZE bytes
RtmMessageHeader(src) ==
  [ rtm_family   |-> src[1],
    rtm_dst_len  |-> src[2],
    rtm_src_len  |-> src[3],
    rtm_tos      |-> src[4],
    rtm_table    |-> src[5],
    rtm_protocol |-> src[6],
    rtm_scope    |-> src[7],
    rtm_type     |-> src[8],
    rtm_flags    |-> Rd32Wide(src, 8) ]

(* ------------------------------------------------------------------ *)
(* BSD: decoders of the routing-socket dump                             *)
(* ------------------------------------------------------------------ *)
roundup(n) ==
  IF n = 0 THEN KERNAL_ALIGN
  ELSE ((n + KERNAL_ALIGN - 1) \div KERNAL_ALIGN) * KERNAL_ALIGN

\* x >>= 1 on an i32 kept as (high half, low half): the sign bit is copied
Shr(x) ==
  << (x[1] \div 2) + (IF x[1] >= 32768 THEN 32768 ELSE 0),
     (x[2] \div 2) + (x[1] % 2) * 32768 >>

\* the fields the code reads of a libc::rt_msghdr laid over `mem`; each is
\* read from memory when the code uses it
rtm_index(mem) == Rd16(mem, 4)
rtm_flags(mem) == Rd32Wide(mem, 8)
rtm_addrs(mem) == Rd32Wide(mem, 12)
rmx_recvpipe(mem) == Rd32Wide(mem, 52)
rt_msghdr(mem) ==
  [ rtm_index    |-> rtm_index(mem),
    rtm_flags    |-> rtm_flags(mem),
    rtm_addrs    |-> rtm_addrs(mem),
    rmx_recvpipe |-> rmx_recvpipe(mem) ]

\* the fields the code reads of a libc::ifa_msghdr (ifam_addrs: its low half,
\* which holds every bit below RTAX_MAX)
ifa_msghdr(b) ==
  [ ifam_msglen  |-> Rd16(b, 0),
    ifam_version |-> b[3],
    ifam_type    |-> b[4],
    ifam_addrs   |-> Rd16(b, 4),
    ifam_index   |-> Rd16(b, 12) ]

\* the fields the code reads of a libc::if_msghdr laid over `mem`
if_msghdr(mem) ==
  [ ifm_type  |-> mem[4],
    ifm_flags |-> Rd32(mem, 8),
    ifm_index |-> Rd16(mem, 12),
    ifi_mtu   |-> Rd32(mem, 24) ]

\* The `while addrs != 0` loop over the socket addresses that follow an
\* rt_msghdr.  addr_ptr is a raw pointer: `off` is its distance from the start
\* of `mem`, the buffer followed by whatever lies after it.  The result is the
\* address bytes of the socket addresses at position `want` whose family the
\* query asked for, or a crash when a read falls outside `mem`.
RECURSIVE SockaddrWalk(_, _, _, _, _, _, _)
SockaddrWalk(mem, off, addrs, i, want, fam, found) ==
  IF addrs = << 0, 0 >> THEN [ crash |-> FALSE, found |-> found ]
  ELSE IF addrs[2] % 2 = 0
  THEN SockaddrWalk(mem, off, Shr(addrs), i + 1, want, fam, found)
  ELSE IF off + 2 > Len(mem) THEN [ crash |-> TRUE, found |-> found ]
  ELSE LET sa_len == IF mem[off + 1] = 0 THEN SockaddrSIZE ELSE mem[off + 1]
           sa_family == mem[off + 2]
           v4 == fam \in { AF_INET, AF_UNSPEC } /\ sa_family = AF_INET /\ i = want
           v6 == fam \in { BSD_AF_INET6, AF_UNSPEC } /\ sa_family = BSD_AF_INET6 /\ i = want
           next == off + ((sa_len + 7) \div 8) * 8
       IN  IF v4
           THEN IF off + 8 > Len(mem) THEN [ crash |-> TRUE, found |-> found ]
                ELSE SockaddrWalk(mem, next, Shr(addrs), i + 1, want, fam,
                                  Append(found, Slice(mem, off + 4, off + 8)))
           ELSE IF v6
           THEN IF off + 24 > Len(mem) THEN [ crash |-> TRUE, found |-> found ]
                ELSE SockaddrWalk(mem, next, Shr(addrs), i + 1, want, fam,
                                  Append(found, Slice(mem, off + 8, off + 24)))
           ELSE SockaddrWalk(mem, next, Shr(addrs), i + 1, want, fam, found)

\* rt_generic_addrs_in's `while addrs != 0` loop: as SockaddrWalk, but the
\* pointer advances by roundup(sa_len)
RECURSIVE RtGenericWalk(_, _, _, _, _, _, _)
RtGenericWalk(mem, off, addrs, i, want, fam, found) ==
  IF addrs = << 0, 0 >> THEN [ crash |-> FALSE, found |-> found ]
  ELSE IF addrs[2] % 2 = 0
  THEN RtGenericWalk(mem, off, Shr(addrs), i + 1, want, fam, found)
  ELSE IF off + 2 > Len(mem) THEN [ crash |-> TRUE, found |-> found ]
  ELSE LET sa_len == IF mem[off + 1] = 0 THEN SockaddrSIZE ELSE mem[off + 1]
           sa_family == mem[off + 2]
           v4 == fam \in { AF_INET, AF_UNSPEC } /\ sa_family = AF_INET /\ i = want
           v6 == fam \in { BSD_AF_INET6, AF_UNSPEC } /\ sa_family = BSD_AF_INET6 /\ i = want
           next == off + roundup(sa_len)
       IN  IF v4
           THEN IF off + 8 > Len(mem) THEN [ crash |-> TRUE, found |-> found ]
                ELSE RtGenericWalk(mem, next, Shr(addrs), i + 1, want, fam,
                                   Append(found, Slice(mem, off + 4, off + 8)))
           ELSE IF v6
           THEN IF off + 24 > Len(mem) THEN [ crash |-> TRUE, found |-> found ]
                ELSE RtGenericWalk(mem, next, Shr(addrs), i + 1, want, fam,
                                   Append(found, Slice(mem, off + 8, off + 24)))
           ELSE RtGenericWalk(mem, next, Shr(addrs), i + 1, want, fam, found)

parse_kernel_inet_addr(b) ==
  LET len == IF b[1] = 0 \/ Len(b) > roundup(b[1]) THEN roundup(b[1]) ELSE b[1]
      remaining == len - 1
  IN  IF Len(b) < len THEN [ err |-> TRUE ]
      ELSE IF b[1] = SOCK4
      THEN [ err |-> FALSE, l |-> b[1], ip |-> Slice(b, OFF4, OFF4 + 4) ]
      ELSE IF b[1] = SOCK6
      THEN [ err |-> FALSE, l |-> b[1], ip |-> Slice(b, OFF6, OFF6 + 16) ]
      ELSE [ err |-> FALSE, l |-> b[1],
             ip |-> IF remaining < OFF4
                    THEN Slice(b, 1, len) \o Zeros(4 - remaining)
                    ELSE Slice(b, len - OFF4, len) ]

\* the kernel-internal form of a scoped IPv6 address: the interface index
\* embedded in bytes 2 and 3 is cleared
Unscoped(ip) ==
  IF /\ \/ ip[1] = 254 /\ ip[2] \div 64 = 2
        \/ ip[1] = 255 /\ ip[2] % 16 \in { 1, 2 }
     /\ << ip[3], ip[4] >> # << 0, 0 >>
  THEN [ ip EXCEPT ![3] = 0, ![4] = 0 ]
  ELSE ip

parse_inet_addr(af, b) ==
  CASE af = AF_INET ->
         IF Len(b) < SOCK4 THEN [ err |-> TRUE ]
         ELSE [ err |-> FALSE, l |-> SOCK4, ip |-> Slice(b, 4, 8) ]
    [] af = BSD_AF_INET6 ->
         IF Len(b) < SOCK6 THEN [ err |-> TRUE ]
         ELSE [ err |-> FALSE, l |-> SOCK6, ip |-> Unscoped(Slice(b, 8, 24)) ]
    [] OTHER -> [ err |-> TRUE ]

\* addrs & (1 << i), for i below 16
HasBit(addrs, i) == (addrs \div (2 ^ i)) % 2 = 1

\* parse_addrs from slot i on; as[i + 1] is slot i of the result, << >> for None
RECURSIVE parse_addrs_from(_, _, _, _)
parse_addrs_from(i, addrs, b, as) ==
  IF i >= RTAX_MAX \/ Len(b) < KERNAL_ALIGN THEN [ err |-> FALSE, as |-> as ]
  ELSE IF ~HasBit(addrs, i) THEN parse_addrs_from(i + 1, addrs, b, as)
  ELSE LET len == roundup(b[1])
       IN  IF i <= RTAX_BRD
           THEN CASE b[2] = AF_LINK ->
                       IF Len(b) < len THEN [ err |-> TRUE ]
                       ELSE parse_addrs_from(i + 1, addrs, Drop(b, len), as)
                  [] b[2] \in { AF_INET, BSD_AF_INET6 } ->
                       LET r == parse_inet_addr(b[2], b)
                       IN  IF r.err \/ Len(b) < len THEN [ err |-> TRUE ]
                           ELSE parse_addrs_from(i + 1, addrs, Drop(b, len),
                                                 [ as EXCEPT ![i + 1] = r.ip ])
                  [] OTHER ->
                       LET r == parse_kernel_inet_addr(b)
                       IN  IF r.err THEN [ err |-> TRUE ]
                           ELSE parse_addrs_from(
                                  i + 1, addrs,
                                  IF Len(b) < roundup(r.l) THEN Drop(b, r.l)
                                  ELSE Drop(b, roundup(r.l)),
                                  [ as EXCEPT ![i + 1] = r.ip ])
           ELSE IF Len(b) < len THEN [ err |-> TRUE ]
                ELSE parse_addrs_from(i + 1, addrs, Drop(b, len), as)

parse_addrs(addrs, b) == parse_addrs_from(0, addrs, b, [ i \in 1..RTAX_MAX |-> << >> ])

\* ipnet::ip_mask_to_prefix: the number of leading one bits, an error when a
\* one bit follows a zero bit
ip_mask_to_prefix(mask) ==
  LET bit(k) == (mask[((k - 1) \div 8) + 1] \div (2 ^ (7 - ((k - 1) % 8)))) % 2
      n == 8 * Len(mask)
      zeros == { k \in 1..n : bit(k) = 0 }
      prefix == IF zeros = {} THEN n ELSE (CHOOSE k \in zeros : \A j \in zeros : k <= j) - 1
  IN  [ err |-> \E k \in (prefix + 1)..n : bit(k) = 1, prefix |-> prefix ]

\* core::str::from_utf8 on the names of the model, which are ASCII or hold a
\* byte 0xFF (a byte no UTF-8 text holds)
IsUtf8(bytes) == \A i \in 1..Len(bytes) : bytes[i] < 128

\* `parse`: the name and hardware address of a link-level socket address
parse(b0) ==
  IF Len(b0) < 8 THEN [ err |-> TRUE ]
  ELSE LET b == Drop(b0, 4)
           nlen == IF b[2] = 255 THEN 0 ELSE b[2]
           alen == IF b[3] = 255 THEN 0 ELSE b[3]
           slen == IF b[4] = 255 THEN 0 ELSE b[4]
           data == Drop(b, 4)
           name == IF nlen > 0 THEN Take(data, nlen) ELSE << >>
           rest == IF nlen > 0 THEN Drop(data, nlen) ELSE data
       IN  IF Len(b) < 4 + nlen + alen + slen THEN [ err |-> TRUE ]
           ELSE IF ~IsUtf8(name) THEN [ err |-> TRUE ]
           ELSE [ err |-> FALSE, name |-> name,
                  mac |-> IF alen = MAC_ADDRESS_SIZE THEN Take(rest, alen) ELSE << >> ]

(* ------------------------------------------------------------------ *)
(* The kernel's side of a dump: how it frames messages and attributes   *)
(* ------------------------------------------------------------------ *)
\* one attribute, padded by the kernel to the attribute alignment
KAttr(ty, val) ==
  Le16(RtAttrSIZE + Len(val)) \o Le16(ty) \o val
    \o Zeros(rta_align_of(RtAttrSIZE + Len(val)) - (RtAttrSIZE + Len(val)))

\* an attribute header with an arbitrary length field, followed by raw bytes
KAttrRaw(len, ty, bytes) == Le16(len) \o Le16(ty) \o bytes

\* one message whose length field is `len`
KMsgRaw(len, ty, seq, pid, body) ==
  Le32(len) \o Le16(ty) \o Le16(2) \o Le32(seq) \o Le32(pid) \o body

\* one well-framed message
KMsg(ty, seq, pid, body) == KMsgRaw(NLMSG_HDRLEN + Len(body), ty, seq, pid, body)

KIfInfo(ty, index, flags) ==
  << 0, 0 >> \o Le16(ty) \o Le32(index) \o Le32(flags) \o Le32(0)

KDone(pid) == KMsg(NLMSG_DONE, ReqSeq, pid, Le32(0))

\* messages every dump may carry whatever the request was
CommonMsgs(pid, body) ==
  { KDone(pid),
    KMsg(NLMSG_ERROR, ReqSeq, pid, Le32(0)),
    KMsg(NLMSG_NOOP, ReqSeq, pid, << >>),
    \* an answer to another request, and one addressed to another socket
    KMsg(NLMSG_NOOP, ReqSeq + 1, pid, << >>),
    KMsg(NLMSG_NOOP, ReqSeq, pid + 1, << >>),
    \* a length field smaller than the header
    KMsgRaw(8, NLMSG_NOOP, ReqSeq, pid, << >>),
    \* a length field that claims more bytes than were sent
    KMsgRaw(NLMSG_HDRLEN + Len(body) + 64, NLMSG_NOOP, ReqSeq, pid, body) }

Mac1 == << 2, 0, 0, 0, 0, 1 >>
NameE == << 101, 0 >>

LinkMsgs(pid) ==
  { \* an ethernet link with name, MTU and a 6-byte hardware address
    KMsg(RTM_NEWLINK, ReqSeq, pid,
         KIfInfo(ARPHRD_ETHER, 1, 3) \o KAttr(IFLA_IFNAME, NameE)
           \o KAttr(IFLA_MTU, Le32(1500)) \o KAttr(IFLA_ADDRESS, Mac1)),
    \* a link whose hardware address is six zero bytes
    KMsg(RTM_NEWLINK, ReqSeq, pid,
         KIfInfo(ARPHRD_ETHER, 2, 9) \o KAttr(IFLA_ADDRESS, Zeros(6))),
    \* an 8-byte link-layer address whose first six bytes are zero
    KMsg(RTM_NEWLINK, ReqSeq, pid,
         KIfInfo(ARPHRD_ETHER, 2, 1) \o KAttr(IFLA_ADDRESS, Zeros(6) \o << 9, 9 >>)),
    \* a 2-byte link-layer address
    KMsg(RTM_NEWLINK, ReqSeq, pid,
         KIfInfo(ARPHRD_ETHER, 2, 1) \o KAttr(IFLA_ADDRESS, << 7, 8 >>)),
    \* a GRE tunnel whose "hardware address" is an IPv4 address
    KMsg(RTM_NEWLINK, ReqSeq, pid,
         KIfInfo(ARPHRD_IPGRE, 3, 1) \o KAttr(IFLA_ADDRESS, << 10, 0, 0, 1 >>)),
    \* an IPv6 tunnel whose "hardware address" is an IPv6 address
    KMsg(RTM_NEWLINK, ReqSeq, pid,
         KIfInfo(ARPHRD_TUNNEL6, 3, 1) \o KAttr(IFLA_ADDRESS, << 254 >> \o Zeros(14) \o << 1 >>)),
    \* an IPv4 GRE tunnel that reports a 16-byte address
    KMsg(RTM_NEWLINK, ReqSeq, pid,
         KIfInfo(ARPHRD_IPGRE, 3, 1) \o KAttr(IFLA_ADDRESS, << 254 >> \o Zeros(14) \o << 1 >>)),
    \* an attribute shorter than its own header
    KMsg(RTM_NEWLINK, ReqSeq, pid,
         KIfInfo(ARPHRD_ETHER, 1, 1) \o KAttrRaw(2, IFLA_MTU, Le32(1500))),
    \* an attribute longer than what follows it
    KMsg(RTM_NEWLINK, ReqSeq, pid,
         KIfInfo(ARPHRD_ETHER, 1, 1) \o KAttrRaw(4000, IFLA_MTU, Le32(1500))) }
    \cup CommonMsgs(pid, KIfInfo(ARPHRD_ETHER, 1, 1))

KIfAddr(fam, prefix_len, index) == << fam, prefix_len, 0, 0 >> \o Le32(index)

Ip10_1 == << 10, 0, 0, 1 >>
Ip10_2 == << 10, 0, 0, 2 >>
Ip192 == << 192, 168, 0, 7 >>
IpLoop == << 127, 0, 0, 1 >>
Ip6LL == << 254, 128 >> \o Zeros(13) \o << 1 >>
Ip6G == << 32, 1 >> \o Zeros(13) \o << 5 >>

AddrMsgs(pid) ==
  { \* a point-to-point entry on interface 1: peer in IFA_ADDRESS, own address in IFA_LOCAL
    KMsg(RTM_NEWADDR, ReqSeq, pid,
         KIfAddr(AF_INET, 32, 1) \o KAttr(IFA_ADDRESS, Ip10_2) \o KAttr(IFA_LOCAL, Ip10_1)),
    \* an entry on interface 2 that carries IFA_ADDRESS alone
    KMsg(RTM_NEWADDR, ReqSeq, pid,
         KIfAddr(AF_INET, 24, 2) \o KAttr(IFA_ADDRESS, Ip192)),
    \* the loopback address, on interface 2
    KMsg(RTM_NEWADDR, ReqSeq, pid,
         KIfAddr(AF_INET, 8, 2) \o KAttr(IFA_ADDRESS, IpLoop) \o KAttr(IFA_LOCAL, IpLoop)),
    \* IPv6 entries carry IFA_ADDRESS alone
    KMsg(RTM_NEWADDR, ReqSeq, pid,
         KIfAddr(AF_INET6, 64, 2) \o KAttr(IFA_ADDRESS, Ip6LL)),
    KMsg(RTM_NEWADDR, ReqSeq, pid,
         KIfAddr(AF_INET6, 64, 1) \o KAttr(IFA_ADDRESS, Ip6G)),
    \* a prefix length no IPv4 address has
    KMsg(RTM_NEWADDR, ReqSeq, pid,
         KIfAddr(AF_INET, 33, 1) \o KAttr(IFA_ADDRESS, Ip10_1)),
    \* the same prefix length on a loopback address
    KMsg(RTM_NEWADDR, ReqSeq, pid,
         KIfAddr(AF_INET, 33, 2) \o KAttr(IFA_ADDRESS, IpLoop)),
    \* an attribute of type 3 (a label) with a 2-byte payload before the address
    KMsg(RTM_NEWADDR, ReqSeq, pid,
         KIfAddr(AF_INET, 24, 1) \o KAttr(3, << 101, 0 >>) \o KAttr(IFA_ADDRESS, Ip10_1)),
    \* an attribute with no payload before the address
    KMsg(RTM_NEWADDR, ReqSeq, pid,
         KIfAddr(AF_INET, 24, 1) \o KAttr(3, << >>) \o KAttr(IFA_ADDRESS, Ip10_1)),
    \* an attribute shorter than its own header
    KMsg(RTM_NEWADDR, ReqSeq, pid,
         KIfAddr(AF_INET, 24, 1) \o KAttrRaw(2, IFA_ADDRESS, Ip10_1)),
    \* an attribute longer than what follows it
    KMsg(RTM_NEWADDR, ReqSeq, pid,
         KIfAddr(AF_INET, 24, 1) \o KAttrRaw(4000, IFA_ADDRESS, Ip10_1)) }
    \cup CommonMsgs(pid, KIfAddr(AF_INET, 24, 1))

KRtMsg(fam, dst_len, table, flags) ==
  << fam, dst_len, 0, 0, table, 0, 0, 1 >> \o Le32(flags)

Metric100 == Le32(100)
Metric50 == Le32(50)
MetricMax == << 255, 255, 255, 255 >>

RouteMsgs(pid) ==
  { \* default routes of the main table, with metric and output interface
    KMsg(RTM_NEWROUTE, ReqSeq, pid,
         KRtMsg(AF_INET, 0, RT_TABLE_MAIN, 0) \o KAttr(RTA_GATEWAY, Ip10_2)
           \o KAttr(RTA_OIF, Le32(1)) \o KAttr(RTA_PRIORITY, Metric100)),
    KMsg(RTM_NEWROUTE, ReqSeq, pid,
         KRtMsg(AF_INET, 0, RT_TABLE_MAIN, 0) \o KAttr(RTA_GATEWAY, Ip192)
           \o KAttr(RTA_OIF, Le32(2)) \o KAttr(RTA_PRIORITY, Metric100)),
    KMsg(RTM_NEWROUTE, ReqSeq, pid,
         KRtMsg(AF_INET, 0, RT_TABLE_MAIN, 0) \o KAttr(RTA_GATEWAY, Ip192)
           \o KAttr(RTA_OIF, Le32(2)) \o KAttr(RTA_PRIORITY, Metric50)),
    \* a default route whose metric is the largest a u32 holds
    KMsg(RTM_NEWROUTE, ReqSeq, pid,
         KRtMsg(AF_INET, 0, RT_TABLE_MAIN, 0)
           \o KAttr(RTA_OIF, Le32(2)) \o KAttr(RTA_PRIORITY, MetricMax)),
    \* a default route without a metric
    KMsg(RTM_NEWROUTE, ReqSeq, pid,
         KRtMsg(AF_INET, 0, RT_TABLE_MAIN, 0) \o KAttr(RTA_OIF, Le32(3))),
    \* a route to 10.1.0.0/24 through the same gateway, flags UP|GATEWAY
    KMsg(RTM_NEWROUTE, ReqSeq, pid,
         KRtMsg(AF_INET, 24, RT_TABLE_MAIN, RTF_UP + RTF_GATEWAY)
           \o KAttr(RTA_DST, << 10, 1, 0, 0 >>) \o KAttr(RTA_GATEWAY, Ip10_2)
           \o KAttr(RTA_OIF, Le32(1)) \o KAttr(RTA_PRIORITY, Metric50)),
    \* a route of the local table (255): no flags, not in the main table
    KMsg(RTM_NEWROUTE, ReqSeq, pid,
         KRtMsg(AF_INET, 32, 255, 0) \o KAttr(RTA_DST, IpLoop)
           \o KAttr(RTA_OIF, Le32(2)) \o KAttr(RTA_PRIORITY, Le32(0))),
    \* a route whose gateway attribute is all zero
    KMsg(RTM_NEWROUTE, ReqSeq, pid,
         KRtMsg(AF_INET, 0, RT_TABLE_MAIN, 0) \o KAttr(RTA_GATEWAY, Zeros(4))
           \o KAttr(RTA_OIF, Le32(1)) \o KAttr(RTA_PRIORITY, Metric100)),
    \* an IPv6 default route
    KMsg(RTM_NEWROUTE, ReqSeq, pid,
         KRtMsg(AF_INET6, 0, RT_TABLE_MAIN, 0) \o KAttr(RTA_GATEWAY, Ip6LL)
           \o KAttr(RTA_OIF, Le32(1)) \o KAttr(RTA_PRIORITY, Metric100)),
    \* a route that answers another request
    KMsg(RTM_NEWROUTE, ReqSeq + 1, pid,
         KRtMsg(AF_INET, 0, RT_TABLE_MAIN, 0) \o KAttr(RTA_GATEWAY, Ip10_1)
           \o KAttr(RTA_OIF, Le32(2)) \o KAttr(RTA_PRIORITY, Le32(1))),
    \* an attribute shorter than its own header
    KMsg(RTM_NEWROUTE, ReqSeq, pid,
         KRtMsg(AF_INET, 0, RT_TABLE_MAIN, 0) \o KAttrRaw(2, RTA_OIF, Le32(1))),
    \* an attribute longer than what follows it
    KMsg(RTM_NEWROUTE, ReqSeq, pid,
         KRtMsg(AF_INET, 0, RT_TABLE_MAIN, 0) \o KAttrRaw(4000, RTA_OIF, Le32(1))) }
    \cup CommonMsgs(pid, KRtMsg(AF_INET, 0, RT_TABLE_MAIN, 0))

(* ------------------------------------------------------------------ *)
(* BSD: the kernel's side of a sysctl dump                              *)
(* ------------------------------------------------------------------ *)
\* socket addresses as the kernel writes them, padded to 4 bytes
KSin(ip) == << SOCK4, AF_INET, 0, 0 >> \o ip \o Zeros(8)
KSin6(ip) == << SOCK6, BSD_AF_INET6, 0, 0, 0, 0, 0, 0 >> \o ip \o Zeros(4)
\* a netmask in the kernel's truncated form: trailing zero bytes are cut
KMask(bytes) ==
  << 4 + Len(bytes), 0, 0, 0 >> \o bytes \o Zeros(roundup(4 + Len(bytes)) - (4 + Len(bytes)))
\* a link-level socket address
KSdl(index, name, mac) ==
  << 8 + Len(name) + Len(mac), AF_LINK >> \o Le16(index) \o << 6, Len(name), Len(mac), 0 >>
    \o name \o mac \o Zeros(roundup(8 + Len(name) + Len(mac)) - (8 + Len(name) + Len(mac)))

\* a route record: rt_msghdr and the socket addresses after it
KRtm(len, version, index, flags, addrs, recvpipe, sas) ==
  Le16(len) \o << version, RTM_GET >> \o Le16(index) \o << 0, 0 >> \o Le32(flags)
    \o Le32(addrs) \o Zeros(36) \o recvpipe \o Zeros(36) \o sas
KRoute(index, flags, addrs, recvpipe, sas) ==
  KRtm(RtMsghdrSIZE + Len(sas), RTM_VERSION, index, flags, addrs, recvpipe, sas)

\* an address record: ifa_msghdr and the socket addresses after it
KIfam(len, version, addrs, index, sas) ==
  Le16(len) \o << version, BSD_RTM_NEWADDR >> \o Le32(addrs) \o Le32(0) \o Le16(index)
    \o << 0, 0 >> \o Le32(0) \o sas
KAddr(index, addrs, sas) == KIfam(HEADER_SIZE + Len(sas), RTM_VERSION, addrs, index, sas)

\* a link record: if_msghdr and the link-level socket address after it
KIfm(len, version, index, flags, mtu, sdl) ==
  Le16(len) \o << version, RTM_IFINFO >> \o Le32(16) \o Le32(flags) \o Le16(index)
    \o << 0, 0 >> \o Zeros(8) \o Le32(mtu) \o Zeros(84) \o sdl
KLink(index, flags, mtu, sdl) ==
  KIfm(IfMsghdrSIZE + Len(sdl), RTM_VERSION, index, flags, mtu, sdl)

Default4 == KSin(Zeros(4))

\* NET_RT_DUMP and NET_RT_FLAGS
BsdRouteMsgs ==
  { \* default routes, UP and GATEWAY, with destination and gateway
    KRoute(1, 3, 3, Metric100, Default4 \o KSin(Ip10_2)),
    KRoute(2, 3, 3, Metric100, Default4 \o KSin(Ip192)),
    KRoute(2, 3, 3, Metric50, Default4 \o KSin(Ip192)),
    \* a default route whose receive pipe is the largest a u32 holds
    KRoute(2, 3, 3, MetricMax, Default4 \o KSin(Ip192)),
    \* a route to 10.1.0.0/24 through the gateway of the first one
    KRoute(1, 3, 7, Le32(10), KSin(<< 10, 1, 0, 0 >>) \o KSin(Ip10_2) \o KMask(<< 255, 255, 255 >>)),
    \* a default route that is not UP
    KRoute(3, 2, 3, Le32(1), Default4 \o KSin(Ip10_1)),
    \* an IPv6 default route
    KRoute(1, 3, 3, Metric100, KSin6(Zeros(16)) \o KSin6(Ip6G)),
    \* a default route whose gateway is the unspecified address
    KRoute(1, 3, 3, Metric100, Default4 \o Default4),
    \* a record of another version of the message format
    KRtm(RtMsghdrSIZE + 32, RTM_VERSION - 1, 1, 3, 3, Metric50, Default4 \o KSin(Ip10_1)),
    \* a record whose length field is zero, and one longer than the dump
    KRtm(0, RTM_VERSION, 1, 3, 3, Metric50, << >>),
    KRtm(RtMsghdrSIZE + 64, RTM_VERSION, 1, 3, 3, Metric50, << >>),
    \* a record cut after its first 8 bytes
    << 8, 0, RTM_VERSION, RTM_GET, 1, 0, 0, 0 >> }

\* NET_RT_DUMP as rt_net_addrs_in meets it
BsdNetMsgs ==
  { \* the network 10.0.0.0/24, and the same network on another interface
    KRoute(1, 1, 7, Le32(0), KSin(<< 10, 0, 0, 0 >>) \o KSin(Ip10_2) \o KMask(<< 255, 255, 255 >>)),
    KRoute(2, 3, 3, Le32(0), KSin(<< 10, 0, 0, 0 >>) \o KSin(Ip192)),
    \* host routes: to 10.0.0.7, and to an address whose last octet is 0
    KRoute(1, 5, 3, Le32(0), KSin(<< 10, 0, 0, 7 >>) \o KSin(Ip10_2)),
    KRoute(1, 7, 3, Le32(0), KSin(<< 10, 0, 1, 0 >>) \o KSin(Ip10_2)),
    \* a route without RTF_HOST whose destination is a single address
    KRoute(1, 1, 3, Le32(0), KSin(<< 10, 0, 0, 7 >>) \o KSin(Ip10_2)),
    \* the IPv6 network 2001:db8::/64 and a single IPv6 address
    KRoute(1, 1, 3, Le32(0), KSin6(<< 32, 1, 13, 184 >> \o Zeros(12)) \o KSin6(Ip6G)),
    KRoute(1, 1, 3, Le32(0), KSin6(Ip6G) \o KSin6(Ip6G)),
    \* a network route scoped to an interface, and one that is not UP
    KRoute(2, RTF_IFSCOPE + 1, 3, Le32(0), KSin(<< 10, 0, 2, 0 >>) \o KSin(Ip192)),
    KRoute(2, 2, 3, Le32(0), KSin(<< 10, 0, 3, 0 >>) \o KSin(Ip192)),
    \* the default route and the limited broadcast address
    KRoute(1, 3, 3, Le32(0), Default4 \o KSin(Ip10_2)),
    KRoute(1, 1, 1, Le32(0), KSin(<< 255, 255, 255, 255 >>)),
    \* a record whose length field is zero, and one cut after its first 8 bytes
    KRtm(0, RTM_VERSION, 1, 3, 3, Metric50, << >>),
    << 8, 0, RTM_VERSION, RTM_GET, 1, 0, 0, 0 >> }

Mask64 == << 255, 255, 255, 255, 255, 255, 255, 255 >> \o Zeros(8)
Ip6Scoped == << 254, 128, 0, 1 >> \o Zeros(11) \o << 1 >>
NameEn == << 101, 110, 48 >>

\* NET_RT_IFLIST: link records and address records
BsdIfListMsgs ==
  { \* addresses with netmask, interface address and broadcast address
    KAddr(1, 164, KMask(<< 255, 255, 255 >>) \o KSin(Ip10_1) \o KSin(<< 10, 0, 0, 255 >>)),
    KAddr(2, 164, KMask(<< 255, 255, 255 >>) \o KSin(Ip192) \o KSin(<< 192, 168, 0, 255 >>)),
    KAddr(2, 36, KMask(<< 255 >>) \o KSin(IpLoop)),
    \* a link-local IPv6 address with the interface index embedded
    KAddr(1, 36, KSin6(Mask64) \o KSin6(Ip6Scoped)),
    \* a netmask with a hole
    KAddr(1, 36, KMask(<< 255, 0, 255 >>) \o KSin(Ip10_1)),
    \* an IPv4 address with an IPv6 netmask
    KAddr(1, 36, KSin6(Mask64) \o KSin(Ip10_1)),
    \* links: ethernet, loopback without an address, six zero bytes, eight bytes
    KLink(1, 3, 1500, KSdl(1, NameEn, Mac1)),
    KLink(2, 9, 16384, KSdl(2, NameEn, << >>)),
    KLink(2, 1, 1500, KSdl(2, NameEn, Zeros(6))),
    KLink(2, 1, 1500, KSdl(2, NameEn, Zeros(6) \o << 9, 9 >>)),
    \* a link whose name is not UTF-8
    KLink(1, 1, 1500, KSdl(1, << 255 >>, Mac1)),
    \* a link record shorter than if_msghdr
    KIfm(32, RTM_VERSION, 1, 1, 1500, << >>),
    \* records of another version, of length zero, and longer than the dump
    KIfam(HEADER_SIZE + 24, RTM_VERSION - 1, 36, 1, KMask(<< 255 >>) \o KSin(Ip10_1)),
    KIfam(0, RTM_VERSION - 1, 36, 1, KMask(<< 255 >>) \o KSin(Ip10_1)),
    KIfam(0, RTM_VERSION, 36, 1, KMask(<< 255 >>) \o KSin(Ip10_1)),
    KIfam(HEADER_SIZE + 64, RTM_VERSION, 36, 1, KMask(<< 255 >>) \o KSin(Ip10_1)) }

\* what may lie in memory after the buffer: nothing mapped, zeroes, or the
\* rest of a record an earlier dump left there
Heaps == { << >>, Zeros(16), Drop(KRoute(1, 3, 3, Metric50, Default4 \o KSin(Ip10_2)), 8) }

RECURSIVE Concat(_)
Concat(ss) == IF ss = << >> THEN << >> ELSE Head(ss) \o Concat(Tail(ss))

\* the sequences of at most n messages drawn from a palette
RECURSIVE SeqsUpTo(_, _)
SeqsUpTo(S, n) ==
  IF n = 0 THEN { << >> }
  ELSE LET shorter == SeqsUpTo(S, n - 1)
       IN  shorter \cup { Append(s, m) : s \in { t \in shorter : Len(t) = n - 1 }, m \in S }

\* The datagrams of one dump: the messages followed by the terminator, sent
\* in one transmission or cut in two at a message boundary.
Datagrams(msgs, pid) ==
  LET all == Append(msgs, KDone(pid))
  IN  { << Concat(all) >> }
        \cup { << Concat(SubSeq(all, 1, k)), Concat(SubSeq(all, k + 1, Len(all))) >> :
               k \in 1..(Len(all) - 1) }

\* the port ids autobind may give the socket
PortIds == { 4097 }

(* ------------------------------------------------------------------ *)
(* State                                                                *)
(* ------------------------------------------------------------------ *)
VARIABLES
  query,          \* the function running: "link", "addr", "best", "gateway"
  family, ifi,    \* its arguments
  pc,             \* its position
  status,         \* "running", or how it returned: "ok", "EINVAL", "oserr", "panic"
  nl_pid,         \* the port id the kernel bound the socket to
  guards,         \* descriptors held by live SocketGuard values, oldest first
  closes,         \* descriptors close() was called on, in order
  nsock,          \* descriptors socket() has returned so far
  lsa_pid,        \* lsa.nl_pid, read back with getsockname
  wire,           \* datagrams the kernel has queued on the socket
  received,       \* the unparsed rest of the receive buffer
  l,              \* aligned length of the message being walked
  hdr,            \* its fixed header (info_hdr, ifam, rtm_header)
  abuf,           \* the attribute cursor (info_data, ifa_msg_data, rtattr_buf)
  interface,      \* the Interface being filled in
  interfaces,     \* netlink_interface's result
  f,              \* the caller's address predicate
  attrs,          \* netlink_addr: the attributes collected for the entry
  addrs,          \* netlink_addr's result
  entry,          \* history: the bytes of the entry being walked, by its own length
  origin,         \* history: for each element of addrs, the entry and attribute it came from
  current_metric, current_oif,   \* netlink_best_local_addrs: the route being walked
  best_ifindex, best_metric,     \* ... and the best route so far
  cands,          \* history: metric and output interface of every candidate route walked
  best_route,     \* history: the fixed header of the route best_ifindex was taken from
  tmp_addrs, current_ifi,        \* rt_generic_addrs: the route being walked
  gateways,       \* rt_generic_addrs's result
  heap,           \* BSD: the bytes that lie in memory after the sysctl buffer
  valid_ifindices,  \* all_local_ip_addrs_in: interface indices of the UP routes seen
  call,           \* history: the public function the caller entered
  snapshot,       \* history: the kernel's answer to the latest dump request
  prev,           \* history: what the caller keeps of the earlier call's result
  up_routes,      \* history: interface indices that have an UP route in the kernel
  other           \* two callers: the locals of the thread that is not running

sockVars == << nl_pid, guards, closes, nsock, lsa_pid >>
linkVars == << interface, interfaces >>
addrVars == << attrs, addrs, entry, origin >>
bestVars == << current_metric, current_oif, best_ifindex, best_metric, cands, best_route >>
gwVars == << tmp_addrs, current_ifi, gateways >>
histVars == << call, prev, up_routes, other >>
argVars == << query, family, ifi, f, heap, valid_ifindices, histVars >>
resultVars == << linkVars, addrVars, bestVars, gwVars >>
\* what a parsing step never touches
frameVars == << argVars, snapshot, nl_pid, nsock, lsa_pid, wire >>
walkVars == << l, hdr, abuf >>
vars == << query, family, ifi, pc, status, nl_pid, guards, closes, nsock, lsa_pid,
           wire, received, l, hdr, abuf, interface, interfaces,
           f, attrs, addrs, entry, origin,
           current_metric, current_oif, best_ifindex, best_metric, cands, best_route,
           tmp_addrs, current_ifi, gateways, heap,
           valid_ifindices, call, snapshot, prev, up_routes, other >>

NoHdr == [ ty |-> 0 ]
\* no second caller
NoContext == << >>
\* Option::None for an interface index, and for a metric
None == -1
NoMetric == << >>
NoInterface == [ index |-> 0, flags |-> 0, mtu |-> 0, name |-> << >>, mac_addr |-> << >> ]

\* Interface::new
InterfaceNew(index, flags) ==
  [ index |-> index, flags |-> flags, mtu |-> 0, name |-> << >>, mac_addr |-> << >> ]

\* interface indices a caller asks for; 0 asks for all
IfiArgs == { 0, 1, 2 }

\* the functions of the BSD backend
BsdQueries ==
  { "bsd_link", "bsd_addr", "bsd_best", "bsd_gateway", "bsd_rt", "bsd_local", "bsd_net" }

\* the functions of the Windows backend
WinQueries == { "win_link" }

\* the calls the model makes: function, family, interface index, predicate
Calls ==
  { << "link", AF_UNSPEC, i, "any" >> : i \in IfiArgs }
    \cup { << "addr", AF_UNSPEC, 0, "any" >>, << "addr", AF_UNSPEC, 1, "any" >>,
           << "addr", AF_INET6, 2, "any" >>,
           << "best", AF_UNSPEC, 0, "any" >>,
           << "gateway", AF_UNSPEC, 0, "any" >>, << "gateway", AF_INET6, 0, "any" >>,
           << "bsd_link", AF_UNSPEC, 0, "any" >>,
           << "bsd_addr", AF_UNSPEC, 0, "any" >>, << "bsd_addr", AF_INET, 1, "local" >>,
           << "bsd_best", AF_UNSPEC, 0, "any" >>, << "bsd_best", BSD_AF_INET6, 0, "any" >>,
           << "bsd_gateway", AF_UNSPEC, 0, "any" >>, << "bsd_gateway", AF_INET, 0, "any" >>,
           << "bsd_rt", AF_UNSPEC, 0, "any" >>, << "bsd_rt", AF_INET, 0, "local" >>,
           << "bsd_local", AF_UNSPEC, 0, "any" >>, << "bsd_local", AF_INET, 0, "local" >> }

\* linux: local_ip_addrs() and local_ip_addrs_by_filter(f) are
\* netlink_addr(family, 0, |addr| f(addr) && local_ip_filter(addr)); with either
\* predicate of the model the conjunction is local_ip_filter
LocalCalls == { << "addr", AF_INET, 0, "local" >> }

\* the interfaces that have an UP route in the kernel while the linux query
\* runs; the query never asks for the route table
KernelUpRoutes == { { 1 } }

\* the locals of a call that has just been entered
Entered ==
  /\ other = NoContext
  /\ pc = (IF query \in BsdQueries \cup WinQueries THEN "fetch" ELSE "socket")
  /\ heap = << >>
  /\ valid_ifindices = << >>
  /\ snapshot = << >>
  /\ prev = << >>
  /\ status = "running"
  /\ nl_pid = 0
  /\ guards = << >>
  /\ closes = << >>
  /\ nsock = 0
  /\ lsa_pid = 0
  /\ wire = << >>
  /\ received = << >>
  /\ l = 0
  /\ hdr = NoHdr
  /\ abuf = << >>
  /\ interface = NoInterface
  /\ interfaces = << >>
  /\ attrs = << >>
  /\ addrs = << >>
  /\ entry = << >>
  /\ origin = << >>
  /\ current_metric = NoMetric
  /\ current_oif = None
  /\ best_ifindex = None
  /\ best_metric = U32MAX
  /\ cands = << >>
  /\ best_route = NoHdr
  /\ tmp_addrs = << >>
  /\ current_ifi = 0
  /\ gateways = << >>

Init ==
  /\ \/ /\ \E c \in Calls : query = c[1] /\ family = c[2] /\ ifi = c[3] /\ f = c[4]
        /\ call = query
        /\ up_routes = { }
     \/ /\ \E c \in LocalCalls : query = c[1] /\ family = c[2] /\ ifi = c[3] /\ f = c[4]
        /\ call = "local"
        /\ \E up \in KernelUpRoutes : up_routes = up
  /\ Entered

(* ------------------------------------------------------------------ *)
(* Leaving the function: every SocketGuard in scope is dropped          *)
(* ------------------------------------------------------------------ *)
RECURSIVE Reverse(_)
Reverse(s) == IF s = << >> THEN << >> ELSE Append(Reverse(Tail(s)), Head(s))

\* a variant in which only the innermost guard closes its descriptor
DropInnermostGuard ==
  /\ closes' = closes \o (IF guards = << >> THEN << >> ELSE << guards[Len(guards)] >>)
  /\ guards' = << >>

\* impl Drop for SocketGuard: close(self.0), innermost guard first
DropGuards == closes' = closes \o Reverse(guards) /\ guards' = << >>

Return(st) ==
  /\ status' = st
  /\ pc' = "done"
  /\ DropGuards

(* ------------------------------------------------------------------ *)
(* Socket set-up, common to the four netlink queries                    *)
(* ------------------------------------------------------------------ *)
\* socket(AF_NETLINK, SOCK_RAW | SOCK_CLOEXEC, NETLINK_ROUTE)
Socket ==
  /\ pc = "socket"
  /\ \/ /\ Return("oserr")
        /\ UNCHANGED << nsock >>
     \/ /\ nsock' = nsock + 1
        /\ guards' = Append(guards, nsock + 1)
        /\ pc' = "bind"
        /\ UNCHANGED << status, closes >>
  /\ UNCHANGED << argVars, snapshot, nl_pid, lsa_pid, wire, received, walkVars, resultVars >>

\* the port ids the kernel can give the socket: no two sockets have the same
FreePorts ==
  IF other = NoContext THEN PortIds ELSE (PortIds \cup { 4098 }) \ { other.nl_pid }

\* bind(sock, &sa): the kernel picks the port id
Bind ==
  /\ pc = "bind"
  /\ \/ /\ Return("oserr")
        /\ UNCHANGED nl_pid
     \/ /\ \E p \in FreePorts : nl_pid' = p
        /\ pc' = "send"
        /\ UNCHANGED << status, guards, closes >>
  /\ UNCHANGED << argVars, snapshot, nsock, lsa_pid, wire, received, walkVars, resultVars >>

\* the calls a caller makes with the result of an earlier call in hand, the
\* kernel's tables unchanged in between
FollowUps == { "interface_by_index", "addrs" }

\* the dumps the kernel may answer with: any of them, or the earlier one
\* again, cut into the same transmissions
Answers(any) == IF call \in FollowUps THEN { snapshot } ELSE any

\* the answer as far as a later call of the caller depends on it: the link
\* dump of interfaces(), the address dump of a best-local query
Kept(answer) ==
  IF (call = "link" /\ ifi = 0) \/ (call \in { "best", "bsd_best" } /\ query # call)
     \/ call \in FollowUps
  THEN answer ELSE << >>

\* what the kernel may answer to the request
Palette(q, pid) ==
  CASE q = "link" -> LinkMsgs(pid)
    [] q = "addr" -> AddrMsgs(pid)
    [] q \in { "best", "gateway" } -> RouteMsgs(pid)
    [] OTHER -> CommonMsgs(pid, << >>)

\* sendto(sock, req): the kernel queues its answer
SendTo ==
  /\ pc = "send"
  /\ \/ /\ Return("oserr")
        /\ UNCHANGED << wire, snapshot >>
     \/ /\ \E d \in Answers(UNION { Datagrams(msgs, nl_pid) :
                                       msgs \in SeqsUpTo(Palette(query, nl_pid),
                                                         IF Len(guards) > 1
                                                         THEN MaxNestedMsgs ELSE MaxMsgs) }) :
             /\ wire' = d
             /\ snapshot' = Kept(d)
        /\ pc' = "getsockname"
        /\ UNCHANGED << status, guards, closes >>
  /\ UNCHANGED << argVars, nl_pid, nsock, lsa_pid, received, walkVars, resultVars >>

\* getsockname(sock, &mut lsa)
GetSockName ==
  /\ pc = "getsockname"
  /\ \/ /\ Return("oserr")
        /\ UNCHANGED lsa_pid
     \/ /\ lsa_pid' = nl_pid
        /\ pc' = "recv"
        /\ UNCHANGED << status, guards, closes >>
  /\ UNCHANGED << argVars, snapshot, nl_pid, nsock, wire, received, walkVars, resultVars >>

\* whether the function rejects a transmission shorter than one header
ChecksShortRead(q) == q # "best"

\* recvfrom(sock, rb): blocks while the kernel has nothing queued
RecvFrom ==
  /\ pc = "recv"
  /\ \/ /\ Return("oserr")
        /\ UNCHANGED << wire, received >>
     \/ /\ wire # << >>
        /\ wire' = Tail(wire)
        /\ IF ChecksShortRead(query) /\ Len(Head(wire)) < NLMSG_HDRLEN
           THEN Return("EINVAL") /\ UNCHANGED received
           ELSE /\ received' = Head(wire)
                /\ pc' = "msg"
                /\ UNCHANGED << status, guards, closes >>
  /\ UNCHANGED << argVars, snapshot, nl_pid, nsock, lsa_pid, walkVars, resultVars >>

(* ------------------------------------------------------------------ *)
(* Message framing checks                                               *)
(* ------------------------------------------------------------------ *)
\* hlen < NLMSG_HDRLEN || l > received.len()
BadLength(h, buf) ==
  h.nlmsg_len < NLMSG_HDRLEN \/ nlm_align_of(h.nlmsg_len) > Len(buf)

\* h.nlmsg_seq != 1 || h.nlmsg_pid != lsa.nl_pid
NotOurs(h, pid) == h.nlmsg_seq # ReqSeq \/ h.nlmsg_pid # pid

\* attrlen < RtAttr::SIZE || attrlen > info_data.len()
BadAttr(attr, buf) == attr.len < RtAttrSIZE \/ attr.len > Len(buf)

(* ------------------------------------------------------------------ *)
(* netlink_interface                                                    *)
(* ------------------------------------------------------------------ *)
\* a variant whose 4-byte arm forgets the GRE link type
TunnelPrefixNoGre(ty, n) ==
  \/ n = 4 /\ ty = ARPHRD_TUNNEL
  \/ n = 16 /\ ty \in { ARPHRD_TUNNEL6, ARPHRD_IP6GRE }

\* the GRE/tunnel arms of the IFLA_ADDRESS match
TunnelPrefix(ty, n) ==
  \/ n = 4 /\ ty \in { ARPHRD_IPGRE, ARPHRD_TUNNEL }
  \/ n = 16 /\ ty \in { ARPHRD_TUNNEL6, ARPHRD_IP6GRE }

\* the default arm: Some(6 bytes) when a byte of vbuf is non-zero, else the
\* field keeps its value
MacFrom(vbuf, old) ==
  IF ~AllZero(vbuf)
  THEN LET len == IF Len(vbuf) < MAC_ADDRESS_SIZE THEN Len(vbuf) ELSE MAC_ADDRESS_SIZE
       IN  Take(vbuf, len) \o Zeros(MAC_ADDRESS_SIZE - len)
  ELSE old

\* CStr::from_ptr(p): the bytes before the first NUL (the zeroed rest of the
\* receive buffer ends the string at the latest)
RECURSIVE CStr(_)
CStr(b) == IF b = << >> \/ Head(b) = 0 THEN << >> ELSE << Head(b) >> \o CStr(Tail(b))

\* a variant that never passes a link over
NeverPassedOver(want, index) == FALSE

\* `ifi != 0 && ifi != info_hdr.index`: the link is not the one asked for
PassedOver(want, index) == want # 0 /\ want # index

\* one iteration of `while received.len() >= NLMSG_HDRLEN`
LinkMsg ==
  /\ pc = "msg" /\ query = "link"
  /\ IF Len(received) < NLMSG_HDRLEN
     THEN pc' = "recv" /\ UNCHANGED << status, guards, closes, received, walkVars, linkVars >>
     ELSE LET h == decode_nlmsghdr(received)
              len == nlm_align_of(h.nlmsg_len)
              msg_buf == Drop(received, NLMSG_HDRLEN)
          IN  IF BadLength(h, received) \/ NotOurs(h, lsa_pid)
              THEN Return("EINVAL") /\ UNCHANGED << received, walkVars, linkVars >>
              ELSE CASE h.nlmsg_type = NLMSG_DONE ->
                          Return("ok") /\ UNCHANGED << received, walkVars, linkVars >>
                     [] h.nlmsg_type = NLMSG_ERROR ->
                          Return("EINVAL") /\ UNCHANGED << received, walkVars, linkVars >>
                     [] h.nlmsg_type = RTM_NEWLINK ->
                          IF Len(msg_buf) < IfInfoMessageHeaderSIZE
                          THEN Return("EINVAL") /\ UNCHANGED << received, walkVars, linkVars >>
                          ELSE LET info_hdr == IfInfoMessageHeader(msg_buf)
                               IN  IF PassedOver(ifi, info_hdr.index)
                                   THEN /\ received' = Drop(received, len)
                                        /\ UNCHANGED << pc, status, guards, closes, walkVars, linkVars >>
                                   ELSE /\ interface' = InterfaceNew(info_hdr.index, info_hdr.flags)
                                        /\ hdr' = info_hdr
                                        /\ abuf' = Drop(msg_buf, IfInfoMessageHeaderSIZE)
                                        /\ l' = len
                                        /\ pc' = "attr"
                                        /\ UNCHANGED << status, guards, closes, received, interfaces >>
                     [] OTHER ->
                          /\ received' = Drop(received, len)
                          /\ UNCHANGED << pc, status, guards, closes, walkVars, linkVars >>
  /\ UNCHANGED << frameVars, addrVars, bestVars, gwVars >>

\* one iteration of `while info_data.len() >= RtAttr::SIZE`, or the code
\* after the loop
LinkAttr ==
  /\ pc = "attr" /\ query = "link"
  /\ IF Len(abuf) < RtAttrSIZE
     THEN /\ interfaces' = Append(interfaces, interface)
          /\ received' = Drop(received, l)
          /\ pc' = "msg"
          /\ UNCHANGED << status, guards, closes, walkVars, interface >>
     ELSE LET attr == RtAttr(abuf)
              alen == rta_align_of(attr.len)
              vbuf == Slice(abuf, RtAttrSIZE, alen)
          IN  IF BadAttr(attr, abuf)
              THEN Return("EINVAL") /\ UNCHANGED << received, walkVars, linkVars >>
              ELSE IF alen > Len(abuf)
              THEN \* &info_data[RtAttr::SIZE..alen] is out of range
                   Return("panic") /\ UNCHANGED << received, walkVars, linkVars >>
              ELSE CASE attr.ty = IFLA_MTU ->
                          IF Len(vbuf) < 4
                          THEN Return("panic") /\ UNCHANGED << received, walkVars, linkVars >>
                          ELSE /\ interface' = [ interface EXCEPT !.mtu = Rd32(vbuf, 0) ]
                               /\ abuf' = Drop(abuf, alen)
                               /\ UNCHANGED << pc, status, guards, closes, received, l, hdr, interfaces >>
                     [] attr.ty = IFLA_IFNAME ->
                          /\ interface' = [ interface EXCEPT !.name = CStr(Drop(abuf, RtAttrSIZE)) ]
                          /\ abuf' = Drop(abuf, alen)
                          /\ UNCHANGED << pc, status, guards, closes, received, l, hdr, interfaces >>
                     [] attr.ty = IFLA_ADDRESS ->
                          IF TunnelPrefix(hdr.ty, Len(vbuf))
                          THEN \* `continue`: the cursor is not advanced
                               UNCHANGED << pc, status, guards, closes, received, walkVars, linkVars >>
                          ELSE /\ interface' = [ interface EXCEPT !.mac_addr = MacFrom(vbuf, @) ]
                               /\ abuf' = Drop(abuf, alen)
                               /\ UNCHANGED << pc, status, guards, closes, received, l, hdr, interfaces >>
                     [] OTHER ->
                          /\ abuf' = Drop(abuf, alen)
                          /\ UNCHANGED << pc, status, guards, closes, received, l, hdr, linkVars >>
  /\ UNCHANGED << frameVars, addrVars, bestVars, gwVars >>

(* ------------------------------------------------------------------ *)
(* The caller's predicate and the result constructors                   *)
(* ------------------------------------------------------------------ *)
IsV4(ip) == Len(ip) = 4

\* local_ip_filter
local_ip_filter(ip) ==
  IF IsV4(ip)
  THEN ~(ip[1] = 127 \/ (ip[1] = 169 /\ ip[2] = 254))
  ELSE ~(ip = Zeros(15) \o << 1 >> \/ (ip[1] = 254 /\ ip[2] \in 128..191))

\* f(&addr)
Accepts(pred, ip) ==
  CASE pred = "any" -> TRUE
    [] pred = "local" -> local_ip_filter(ip)
    [] OTHER -> FALSE

\* a variant that allows every address the widest IPv6 prefix
MaxPrefixOfV6(ip) == 128

\* the widest prefix an address of this family has
MaxPrefix(ip) == IF IsV4(ip) THEN 32 ELSE 128

\* N: the result type the caller fixed together with the family
ResultHolds(fam, ip) ==
  \/ fam = AF_UNSPEC
  \/ fam = AF_INET /\ IsV4(ip)
  \/ fam \in { AF_INET6, BSD_AF_INET6 } /\ ~IsV4(ip)

\* a variant that runs the constructor first and the predicate on its result
NetTryFromThenFilter(fam, index, ip, prefix, pred) ==
  IF ~ResultHolds(fam, ip) THEN [ kind |-> "none" ]
  ELSE IF prefix > MaxPrefix(ip) THEN [ kind |-> "panic" ]
  ELSE IF ~Accepts(pred, ip) THEN [ kind |-> "none" ]
  ELSE [ kind |-> "some", val |-> [ index |-> index, addr |-> ip, prefix_len |-> prefix ] ]

\* Net::try_from_with_filter: the predicate first, then the constructor, whose
\* with_prefix_len_assert panics on a prefix wider than the address
NetTryFromWithFilter(fam, index, ip, prefix, pred) ==
  IF ~Accepts(pred, ip) THEN [ kind |-> "none" ]
  ELSE IF ~ResultHolds(fam, ip) THEN [ kind |-> "none" ]
  ELSE IF prefix > MaxPrefix(ip) THEN [ kind |-> "panic" ]
  ELSE [ kind |-> "some", val |-> [ index |-> index, addr |-> ip, prefix_len |-> prefix ] ]

(* ------------------------------------------------------------------ *)
(* netlink_addr                                                         *)
(* ------------------------------------------------------------------ *)
\* a variant that looks at the entry's first attribute only
PointToPointFirstOnly(as) == as # << >> /\ as[1].ty = IFA_LOCAL

\* whether an IFA_LOCAL attribute is among the entry's collected attributes
PointToPoint(as) == \E i \in 1..Len(as) : as[i].ty = IFA_LOCAL

\* the second `for` loop over the collected attributes: what it appends to
\* addrs (out), where each came from (src), and whether it panicked
RECURSIVE EmitAddrs(_, _, _, _, _, _)
EmitAddrs(as, p2p, ifam, fam, pred, acc) ==
  IF as = << >> THEN acc
  ELSE LET a == Head(as)
           rest == Tail(as)
           wanted == a.ty = IFA_ADDRESS \/ a.ty = IFA_LOCAL
           size == IF ifam.family = AF_INET THEN 4 ELSE 16
           made == NetTryFromWithFilter(fam, ifam.index, Take(a.vbuf, size),
                                        ifam.prefix_len, pred)
       IN  IF p2p /\ a.ty = IFA_ADDRESS
           THEN EmitAddrs(rest, p2p, ifam, fam, pred, acc)
           ELSE IF ifam.family = AF_INET /\ Len(a.vbuf) < 4
           THEN \* vbuf[..4] is out of range
                [ acc EXCEPT !.panic = TRUE ]
           ELSE IF (ifam.family = AF_INET \/ (ifam.family = AF_INET6 /\ Len(a.vbuf) >= 16))
                   /\ wanted
           THEN CASE made.kind = "panic" -> [ acc EXCEPT !.panic = TRUE ]
                  [] made.kind = "none" -> EmitAddrs(rest, p2p, ifam, fam, pred, acc)
                  [] OTHER ->
                       EmitAddrs(rest, p2p, ifam, fam, pred,
                                 [ acc EXCEPT !.out = Append(@, made.val),
                                              !.src = Append(@, a.ty) ])
           ELSE EmitAddrs(rest, p2p, ifam, fam, pred, acc)

\* a variant that collects the attributes of every interface
ScopedAlways(want, index) == TRUE

\* `ifi == 0 || ifi == ifam.index`: the entry is on the interface asked for
Scoped(want, index) == want = 0 \/ want = index

\* one iteration of `while received.len() >= NLMSG_HDRLEN`
AddrMsg ==
  /\ pc = "msg" /\ query = "addr"
  /\ IF Len(received) < NLMSG_HDRLEN
     THEN pc' = "recv" /\ UNCHANGED << status, guards, closes, received, walkVars, addrVars >>
     ELSE LET h == decode_nlmsghdr(received)
              len == nlm_align_of(h.nlmsg_len)
              msg_buf == Drop(received, NLMSG_HDRLEN)
          IN  IF BadLength(h, received) \/ NotOurs(h, lsa_pid)
              THEN Return("EINVAL") /\ UNCHANGED << received, walkVars, addrVars >>
              ELSE CASE h.nlmsg_type = NLMSG_DONE ->
                          Return("ok") /\ UNCHANGED << received, walkVars, addrVars >>
                     [] h.nlmsg_type = NLMSG_ERROR ->
                          Return("EINVAL") /\ UNCHANGED << received, walkVars, addrVars >>
                     [] h.nlmsg_type = RTM_NEWADDR ->
                          IF Len(msg_buf) < IfNetMessageHeaderSIZE
                          THEN \* msg_buf[4..8] is out of range
                               Return("panic") /\ UNCHANGED << received, walkVars, addrVars >>
                          ELSE /\ hdr' = IfNetMessageHeader(msg_buf)
                               /\ abuf' = Drop(msg_buf, IfNetMessageHeaderSIZE)
                               /\ l' = len
                               /\ attrs' = << >>
                               /\ entry' = Take(received, h.nlmsg_len)
                               /\ pc' = "attr"
                               /\ UNCHANGED << status, guards, closes, received, addrs, origin >>
                     [] OTHER ->
                          /\ received' = Drop(received, len)
                          /\ UNCHANGED << pc, status, guards, closes, walkVars, addrVars >>
  /\ UNCHANGED << frameVars, linkVars, bestVars, gwVars >>

\* one iteration of `while ifa_msg_data.len() >= RtAttr::SIZE`, or the two
\* `for` loops after it
AddrAttr ==
  /\ pc = "attr" /\ query = "addr"
  /\ IF Len(abuf) < RtAttrSIZE
     THEN LET got == EmitAddrs(attrs, PointToPoint(attrs), hdr, family, f,
                               [ panic |-> FALSE, out |-> << >>, src |-> << >> ])
          IN  IF got.panic
              THEN Return("panic") /\ UNCHANGED << received, walkVars, addrVars >>
              ELSE /\ addrs' = addrs \o got.out
                   /\ origin' = origin \o [ i \in 1..Len(got.src) |->
                                            [ ty |-> got.src[i], entry |-> entry ] ]
                   /\ received' = Drop(received, l)
                   /\ pc' = "msg"
                   /\ UNCHANGED << status, guards, closes, walkVars, attrs, entry >>
     ELSE LET attr == RtAttr(abuf)
              alen == rta_align_of(attr.len)
              vbuf == Slice(abuf, RtAttrSIZE, alen)
          IN  IF BadAttr(attr, abuf)
              THEN Return("EINVAL") /\ UNCHANGED << received, walkVars, addrVars >>
              ELSE IF alen > Len(abuf)
              THEN \* &ifa_msg_data[RtAttr::SIZE..alen] is out of range
                   Return("panic") /\ UNCHANGED << received, walkVars, addrVars >>
              ELSE /\ attrs' = IF Scoped(ifi, hdr.index)
                               THEN Append(attrs, [ ty |-> attr.ty, vbuf |-> vbuf ])
                               ELSE attrs
                   /\ abuf' = Drop(abuf, alen)
                   /\ UNCHANGED << pc, status, guards, closes, received, l, hdr,
                                   addrs, entry, origin >>
  /\ UNCHANGED << frameVars, linkVars, bestVars, gwVars >>

(* ------------------------------------------------------------------ *)
(* netlink_best_local_addrs                                             *)
(* ------------------------------------------------------------------ *)
\* has_gateway: old_kernel_gw || new_kernel_gw (both flag bits lie in the low
\* half of rtm_flags)
HasGateway(rtm) ==
  \/ BitAnd(rtm.rtm_flags[2], RTF_UP + RTF_GATEWAY) = RTF_UP + RTF_GATEWAY
  \/ rtm.rtm_dst_len = 0 /\ rtm.rtm_table = RT_TABLE_MAIN

\* a variant that also lets an equal metric win
BetterOrEqualMetric(metric, best) == ~U32Lt(best, metric)

\* metric < best_metric
BetterMetric(metric, best) == U32Lt(metric, best)

\* "Update best interface if this route has better metric": the pair
\* (best_metric, best_ifindex) after the route with this metric and interface
BestAfter(metric, oif, bmetric, bifindex) ==
  IF metric # NoMetric /\ oif # None
  THEN IF BetterMetric(metric, bmetric) THEN << metric, oif >> ELSE << bmetric, bifindex >>
  ELSE IF oif # None /\ bmetric = U32MAX
  THEN << << 0, 0 >>, oif >>
  ELSE << bmetric, bifindex >>

\* one iteration of `while received.len() >= NLMSG_HDRLEN`
BestMsg ==
  /\ pc = "msg" /\ query = "best"
  /\ IF Len(received) < NLMSG_HDRLEN
     THEN pc' = "recv" /\ UNCHANGED << status, guards, closes, received, walkVars, bestVars >>
     ELSE LET h == decode_nlmsghdr(received)
              len == nlm_align_of(h.nlmsg_len)
              rtm == Drop(received, NLMSG_HDRLEN)
          IN  CASE h.nlmsg_type = NLMSG_DONE ->
                     /\ pc' = "select"
                     /\ UNCHANGED << status, guards, closes, received, walkVars, bestVars >>
                [] h.nlmsg_type = NLMSG_ERROR ->
                     Return("EINVAL") /\ UNCHANGED << received, walkVars, bestVars >>
                [] h.nlmsg_type = RTM_NEWROUTE ->
                     IF Len(rtm) < RtmMessageHeaderSIZE
                     THEN Return("EINVAL") /\ UNCHANGED << received, walkVars, bestVars >>
                     ELSE IF ~HasGateway(RtmMessageHeader(rtm))
                     THEN IF len > Len(received)
                          THEN \* &received[l..] is out of range
                               Return("panic") /\ UNCHANGED << received, walkVars, bestVars >>
                          ELSE /\ received' = Drop(received, len)
                               /\ UNCHANGED << pc, status, guards, closes, walkVars, bestVars >>
                     ELSE /\ hdr' = RtmMessageHeader(rtm)
                          /\ abuf' = Drop(rtm, RtmMessageHeaderSIZE)
                          /\ l' = len
                          /\ current_metric' = NoMetric
                          /\ current_oif' = None
                          /\ pc' = "attr"
                          /\ UNCHANGED << status, guards, closes, received,
                                          best_ifindex, best_metric, cands, best_route >>
                [] OTHER ->
                     IF len > Len(received)
                     THEN Return("panic") /\ UNCHANGED << received, walkVars, bestVars >>
                     ELSE /\ received' = Drop(received, len)
                          /\ UNCHANGED << pc, status, guards, closes, walkVars, bestVars >>
  /\ UNCHANGED << frameVars, linkVars, addrVars, gwVars >>

\* one iteration of `while rtattr_buf.len() >= RtAttr::SIZE`, or the update
\* of the best route after it
BestAttr ==
  /\ pc = "attr" /\ query = "best"
  /\ IF Len(abuf) < RtAttrSIZE
     THEN IF l > Len(received)
          THEN Return("panic") /\ UNCHANGED << received, walkVars, bestVars >>
          ELSE LET after == BestAfter(current_metric, current_oif, best_metric, best_ifindex)
               IN  /\ best_metric' = after[1]
                   /\ best_ifindex' = after[2]
                   /\ cands' = Append(cands, [ metric |-> current_metric, oif |-> current_oif,
                                             dst_len |-> hdr.rtm_dst_len ])
                   /\ best_route' = IF after = << best_metric, best_ifindex >>
                                    THEN best_route ELSE hdr
                   /\ received' = Drop(received, l)
                   /\ pc' = "msg"
                   /\ UNCHANGED << status, guards, closes, walkVars, current_metric, current_oif >>
     ELSE LET attr == RtAttr(abuf)
              alen == rta_align_of(attr.len)
              data == Slice(abuf, RtAttrSIZE, attr.len)
          IN  IF attr.len < RtAttrSIZE \/ attr.len > Len(abuf) \/ alen > Len(abuf)
              THEN \* &rtattr_buf[RtAttr::SIZE..attrlen] or &rtattr_buf[alen..] is out of range
                   Return("panic") /\ UNCHANGED << received, walkVars, bestVars >>
              ELSE /\ current_metric' = IF attr.ty = RTA_PRIORITY /\ Len(data) >= 4
                                        THEN Rd32Wide(data, 0) ELSE current_metric
                   /\ current_oif' = IF attr.ty = RTA_OIF /\ Len(data) >= 4
                                     THEN Rd32(data, 0) ELSE current_oif
                   /\ abuf' = Drop(abuf, alen)
                   /\ UNCHANGED << pc, status, guards, closes, received, l, hdr,
                                   best_ifindex, best_metric, cands, best_route >>
  /\ UNCHANGED << frameVars, linkVars, addrVars, gwVars >>

\* "Get addresses only from the best interface": the tail call
\* netlink_addr(family, idx, local_ip_filter), made while this function's
\* SocketGuard is still alive
BestSelect ==
  /\ pc = "select" /\ query = "best"
  /\ IF best_ifindex = None
     THEN /\ Return("ok")
          /\ UNCHANGED << query, ifi, f, wire, received, walkVars, cands, best_route >>
     ELSE /\ query' = "addr"
          /\ ifi' = best_ifindex
          /\ f' = "local"
          /\ pc' = "socket"
          /\ wire' = << >>
          /\ received' = << >>
          /\ l' = 0 /\ hdr' = NoHdr /\ abuf' = << >>
          /\ cands' = << >>
          /\ best_route' = NoHdr
          /\ UNCHANGED << status, guards, closes >>
  /\ UNCHANGED << family, heap, valid_ifindices, histVars, snapshot,
                  nl_pid, nsock, lsa_pid, linkVars, addrVars, gwVars,
                  current_metric, current_oif, best_ifindex, best_metric >>

(* ------------------------------------------------------------------ *)
(* rt_generic_addrs (the gateway query: rta = RTA_GATEWAY, rtn = None)  *)
(* ------------------------------------------------------------------ *)
\* Address::try_from: None when the result type holds the other family
AddrTryFrom(fam, index, ip) ==
  IF ResultHolds(fam, ip) THEN << [ index |-> index, addr |-> ip ] >> ELSE << >>

\* the address an attribute of the wanted type yields, if any
GatewayOf(fam, rtm_family, data) ==
  IF fam \in { AF_INET, AF_UNSPEC } /\ rtm_family = AF_INET /\ Len(data) >= 4
  THEN << Take(data, 4) >>
  ELSE IF fam \in { AF_INET6, AF_UNSPEC } /\ rtm_family = AF_INET6 /\ Len(data) >= 16
  THEN << Take(data, 16) >>
  ELSE << >>

RECURSIVE FilterMapTryFrom(_, _, _)
FilterMapTryFrom(fam, index, ips) ==
  IF ips = << >> THEN << >>
  ELSE AddrTryFrom(fam, index, Head(ips)) \o FilterMapTryFrom(fam, index, Tail(ips))

\* a variant that puts the new gateways in front of the earlier ones
ExtendGatewaysFront(gws, fam, index, ips) == FilterMapTryFrom(fam, index, ips) \o gws

\* gateways.extend(tmp_addrs.into_iter().filter_map(...))
ExtendGateways(gws, fam, index, ips) == gws \o FilterMapTryFrom(fam, index, ips)

\* one iteration of `while received.len() >= NLMSG_HDRLEN`
GwMsg ==
  /\ pc = "msg" /\ query = "gateway"
  /\ IF Len(received) < NLMSG_HDRLEN
     THEN pc' = "recv" /\ UNCHANGED << status, guards, closes, received, walkVars, gwVars >>
     ELSE LET h == decode_nlmsghdr(received)
              len == nlm_align_of(h.nlmsg_len)
              rtm == Drop(received, NLMSG_HDRLEN)
          IN  IF BadLength(h, received) \/ NotOurs(h, lsa_pid)
              THEN Return("EINVAL") /\ UNCHANGED << received, walkVars, gwVars >>
              ELSE CASE h.nlmsg_type = NLMSG_DONE ->
                          Return("ok") /\ UNCHANGED << received, walkVars, gwVars >>
                     [] h.nlmsg_type = NLMSG_ERROR ->
                          Return("EINVAL") /\ UNCHANGED << received, walkVars, gwVars >>
                     [] h.nlmsg_type = RTM_NEWROUTE ->
                          IF Len(rtm) < RtmMessageHeaderSIZE
                          THEN Return("EINVAL") /\ UNCHANGED << received, walkVars, gwVars >>
                          ELSE /\ hdr' = RtmMessageHeader(rtm)
                               /\ abuf' = Drop(rtm, RtmMessageHeaderSIZE)
                               /\ l' = len
                               /\ tmp_addrs' = << >>
                               /\ current_ifi' = 0
                               /\ pc' = "attr"
                               /\ UNCHANGED << status, guards, closes, received, gateways >>
                     [] OTHER ->
                          /\ received' = Drop(received, len)
                          /\ UNCHANGED << pc, status, guards, closes, walkVars, gwVars >>
  /\ UNCHANGED << frameVars, linkVars, addrVars, bestVars >>

\* one iteration of `while rtattr_buf.len() >= RtAttr::SIZE`, or the code
\* after the loop
GwAttr ==
  /\ pc = "attr" /\ query = "gateway"
  /\ IF Len(abuf) < RtAttrSIZE \/ BadAttr(RtAttr(abuf), abuf)
     THEN \* the loop ends, by its condition or by `break`
          /\ gateways' = ExtendGateways(gateways, family, current_ifi, tmp_addrs)
          /\ received' = Drop(received, l)
          /\ pc' = "msg"
          /\ UNCHANGED << status, guards, closes, walkVars, tmp_addrs, current_ifi >>
     ELSE LET attr == RtAttr(abuf)
              alen == rta_align_of(attr.len)
              data == Slice(abuf, RtAttrSIZE, attr.len)
              gw == GatewayOf(family, hdr.rtm_family, data)
          IN  IF alen > Len(abuf)
              THEN \* &rtattr_buf[alen..] is out of range
                   Return("panic") /\ UNCHANGED << received, walkVars, gwVars >>
              ELSE /\ tmp_addrs' = IF attr.ty = RTA_GATEWAY /\ gw # << >> /\ Accepts(f, gw[1])
                                   THEN Append(tmp_addrs, gw[1]) ELSE tmp_addrs
                   /\ current_ifi' = IF attr.ty = RTA_OIF /\ attr.ty # RTA_GATEWAY /\ Len(data) >= 4
                                     THEN Rd32(data, 0) ELSE current_ifi
                   /\ abuf' = Drop(abuf, alen)
                   /\ UNCHANGED << pc, status, guards, closes, received, l, hdr, gateways >>
  /\ UNCHANGED << frameVars, linkVars, addrVars, bestVars >>

(* ------------------------------------------------------------------ *)
(* BSD: fetch and the four record walks                                 *)
(* ------------------------------------------------------------------ *)
\* what the kernel may put in the dump a function asks for
BsdPalette(q) ==
  IF q \in { "bsd_best", "bsd_gateway", "bsd_rt", "bsd_local" }
  THEN BsdRouteMsgs
  ELSE IF q = "bsd_net" THEN BsdNetMsgs ELSE BsdIfListMsgs

\* fetch: the two sysctl calls, the size and then the dump
Fetch ==
  /\ pc = "fetch"
  /\ \/ /\ Return("oserr")
        /\ UNCHANGED << received, heap, snapshot >>
     \/ /\ \E buf \in Answers({ Concat(msgs) :
                                     msgs \in SeqsUpTo(BsdPalette(query),
                                                       IF call # query
                                                       THEN MaxNestedMsgs ELSE MaxMsgs) }) :
             /\ received' = buf
             /\ snapshot' = Kept(buf)
        /\ \E h \in Heaps : heap' = h
        /\ pc' = "rec"
        /\ UNCHANGED << status, guards, closes >>
  /\ UNCHANGED << query, family, ifi, f, valid_ifindices, histVars,
                  sockVars, wire, walkVars, resultVars >>

\* the checks that open every `while src.len() > 4` iteration:
\* "invalid" for the two errors, "skip" for another version, else "take"
RecordCheck(src) ==
  IF Rd16(src, 0) = 0 THEN "invalid"
  ELSE IF Len(src) < Rd16(src, 0) THEN "invalid"
  ELSE IF src[3] # RTM_VERSION THEN "skip"
  ELSE "take"

\* src = &src[l..]
NextRecord == received' = Drop(received, Rd16(received, 0))

\* interface_table: one iteration of `while src.len() > 4`
BsdLinkRecord ==
  /\ pc = "rec" /\ query = "bsd_link"
  /\ IF Len(received) <= 4
     THEN Return("ok") /\ UNCHANGED << received, linkVars >>
     ELSE LET len == Rd16(received, 0)
              ifm == if_msghdr(received)
              parsed == parse(Slice(received, IfMsghdrSIZE, len))
          IN  CASE RecordCheck(received) = "invalid" ->
                     Return("invalid") /\ UNCHANGED << received, linkVars >>
                [] RecordCheck(received) = "take" /\ received[4] = RTM_IFINFO ->
                     IF len < IfMsghdrSIZE
                     THEN \* &src[size_of::<if_msghdr>()..l] is out of range
                          Return("panic") /\ UNCHANGED << received, linkVars >>
                     ELSE IF parsed.err
                     THEN Return("invalid") /\ UNCHANGED << received, linkVars >>
                     ELSE /\ interfaces' = Append(interfaces,
                                [ index |-> ifm.ifm_index, flags |-> ifm.ifm_flags,
                                  mtu |-> ifm.ifi_mtu, name |-> parsed.name,
                                  mac_addr |-> parsed.mac ])
                          /\ NextRecord
                          /\ UNCHANGED << pc, status, guards, closes, interface >>
                [] OTHER ->
                     NextRecord /\ UNCHANGED << pc, status, guards, closes, linkVars >>
  /\ UNCHANGED << frameVars, walkVars, addrVars, bestVars, gwVars >>

\* interface_addr_table: one iteration of `while b.len() > HEADER_SIZE`
BsdAddrRecord ==
  /\ pc = "rec" /\ query = "bsd_addr"
  /\ IF Len(received) <= HEADER_SIZE
     THEN IF call = "bsd_local" /\ ifi = 0
          THEN \* all_local_ip_addrs_in goes on with `all_addrs`
               pc' = "filter" /\ UNCHANGED << status, guards, closes, received, addrVars >>
          ELSE Return("ok") /\ UNCHANGED << received, addrVars >>
     ELSE LET ifam == ifa_msghdr(received)
              len == ifam.ifam_msglen
              parsed == parse_addrs(ifam.ifam_addrs, Slice(received, HEADER_SIZE, len))
              mask == parsed.as[RTAX_NETMASK + 1]
              ip == parsed.as[RTAX_IFA + 1]
              prefix == ip_mask_to_prefix(mask)
              made == NetTryFromWithFilter(family, ifam.ifam_index, ip, prefix.prefix, f)
              Skip == IF len > Len(received)
                      THEN \* &b[len..] is out of range
                           Return("panic") /\ UNCHANGED << received, addrVars >>
                      ELSE /\ received' = Drop(received, len)
                           /\ UNCHANGED << pc, status, guards, closes, addrVars >>
          IN  IF ifam.ifam_version # RTM_VERSION \/ (ifam.ifam_index # ifi /\ ifi # 0)
              THEN Skip
              ELSE IF ifam.ifam_type # BSD_RTM_NEWADDR
              THEN Skip
              ELSE IF len < HEADER_SIZE \/ len > Len(received)
              THEN \* &b[HEADER_SIZE..len] is out of range
                   Return("panic") /\ UNCHANGED << received, addrVars >>
              ELSE IF parsed.err
              THEN Return("invalid") /\ UNCHANGED << received, addrVars >>
              ELSE IF ip = << >> \/ mask = << >>
              THEN Skip
              ELSE IF prefix.err
              THEN Return("invalid") /\ UNCHANGED << received, addrVars >>
              ELSE IF made.kind = "panic"
              THEN Return("panic") /\ UNCHANGED << received, addrVars >>
              ELSE /\ addrs' = IF made.kind = "some" THEN Append(addrs, made.val) ELSE addrs
                   /\ received' = Drop(received, len)
                   /\ UNCHANGED << pc, status, guards, closes, attrs, entry, origin >>
  /\ UNCHANGED << frameVars, walkVars, linkVars, bestVars, gwVars >>

\* "If this is a default route and has better metric, update best_ifindex"
BsdBestAfter(is_default, mem, bmetric, bifindex) ==
  IF is_default /\ U32Lt(rmx_recvpipe(mem), bmetric)
  THEN << rmx_recvpipe(mem), rtm_index(mem) >>
  ELSE << bmetric, bifindex >>

\* bast_local_ip_addrs_in: one iteration of `while src.len() > 4`
BsdBestRecord ==
  /\ pc = "rec" /\ query = "bsd_best"
  /\ IF Len(received) <= 4
     THEN pc' = "select" /\ UNCHANGED << status, guards, closes, received, bestVars >>
     ELSE LET mem == received \o heap
              walk == SockaddrWalk(mem, RtMsghdrSIZE, rtm_addrs(mem), 1, RTA_DST, family, << >>)
              is_default == \E k \in 1..Len(walk.found) : AllZero(walk.found[k])
              after == BsdBestAfter(is_default, mem, best_metric, best_ifindex)
          IN  CASE RecordCheck(received) = "invalid" ->
                     Return("invalid") /\ UNCHANGED << received, bestVars >>
                [] RecordCheck(received) = "skip" ->
                     NextRecord /\ UNCHANGED << pc, status, guards, closes, bestVars >>
                [] OTHER ->
                     IF Len(mem) < 16
                     THEN \* rtm_flags or rtm_addrs lies outside the mapped bytes
                          Return("crash") /\ UNCHANGED << received, bestVars >>
                     ELSE IF BitAnd(rtm_flags(mem)[2], RTF_UP) = 0
                     THEN NextRecord /\ UNCHANGED << pc, status, guards, closes, bestVars >>
                     ELSE IF walk.crash
                     THEN Return("crash") /\ UNCHANGED << received, bestVars >>
                     ELSE /\ best_metric' = after[1]
                          /\ best_ifindex' = after[2]
                          /\ cands' = IF is_default
                                      THEN Append(cands, [ metric |-> rmx_recvpipe(mem),
                                                           oif |-> rtm_index(mem),
                                                           dst_len |-> 0 ])
                                      ELSE cands
                          /\ best_route' = IF after = << best_metric, best_ifindex >>
                                           THEN best_route ELSE rt_msghdr(mem)
                          /\ NextRecord
                          /\ UNCHANGED << pc, status, guards, closes, current_metric, current_oif >>
  /\ UNCHANGED << frameVars, walkVars, linkVars, addrVars, gwVars >>

\* "Only pass the interface index if we found a valid default route": the
\* tail call interface_addr_table(family, idx, local_ip_filter)
BsdBestSelect ==
  /\ pc = "select" /\ query = "bsd_best"
  /\ IF best_ifindex = None
     THEN /\ Return("ok")
          /\ UNCHANGED << query, ifi, f, received, heap, cands, best_route >>
     ELSE /\ query' = "bsd_addr"
          /\ ifi' = best_ifindex
          /\ f' = "local"
          /\ pc' = "fetch"
          /\ received' = << >>
          /\ heap' = << >>
          /\ cands' = << >>
          /\ best_route' = NoHdr
          /\ UNCHANGED << status, guards, closes >>
  /\ UNCHANGED << family, valid_ifindices, histVars, snapshot,
                  nl_pid, nsock, lsa_pid, wire, walkVars, linkVars, addrVars, gwVars,
                  current_metric, current_oif, best_ifindex, best_metric >>

\* Address::try_from_with_filter: the predicate first
AddrTryFromWithFilter(fam, index, ip, pred) ==
  IF ~Accepts(pred, ip) THEN << >> ELSE AddrTryFrom(fam, index, ip)

\* the pushes of one record's gateway addresses: zero addresses are passed
\* over, and `if !results.contains(&addr)` guards each push
RECURSIVE PushGateways(_, _, _, _, _)
PushGateways(results, fam, index, ips, pred) ==
  IF ips = << >> THEN results
  ELSE LET made == IF AllZero(Head(ips)) THEN << >>
                   ELSE AddrTryFromWithFilter(fam, index, Head(ips), pred)
           pushed == IF made # << >> /\ (\A k \in 1..Len(results) : results[k] # made[1])
                     THEN results \o made ELSE results
       IN  PushGateways(pushed, fam, index, Tail(ips), pred)

\* gateway_addrs_in: one iteration of `while src.len() > 4`
BsdGwRecord ==
  /\ pc = "rec" /\ query = "bsd_gateway"
  /\ IF Len(received) <= 4
     THEN Return("ok") /\ UNCHANGED << received, gwVars >>
     ELSE LET mem == received \o heap
              walk == SockaddrWalk(mem, RtMsghdrSIZE, rtm_addrs(mem), 1, BSD_RTA_GATEWAY,
                                   family, << >>)
          IN  CASE RecordCheck(received) = "invalid" ->
                     Return("invalid") /\ UNCHANGED << received, gwVars >>
                [] RecordCheck(received) = "skip" \/ received[4] # RTM_GET ->
                     NextRecord /\ UNCHANGED << pc, status, guards, closes, gwVars >>
                [] OTHER ->
                     IF Len(mem) < 16
                     THEN Return("crash") /\ UNCHANGED << received, gwVars >>
                     ELSE IF BitAnd(rtm_flags(mem)[2], RTF_UP) = 0
                     THEN NextRecord /\ UNCHANGED << pc, status, guards, closes, gwVars >>
                     ELSE IF walk.crash
                     THEN Return("crash") /\ UNCHANGED << received, gwVars >>
                     ELSE /\ gateways' = PushGateways(gateways, family, rtm_index(mem),
                                                      walk.found, f)
                          /\ NextRecord
                          /\ UNCHANGED << pc, status, guards, closes, tmp_addrs, current_ifi >>
  /\ UNCHANGED << frameVars, walkVars, linkVars, addrVars, bestVars >>

\* rt_generic_addrs_in(family, RTF_GATEWAY, RTA_GATEWAY, f): one iteration of
\* `while src.len() > 4`
BsdRtRecord ==
  /\ pc = "rec" /\ query = "bsd_rt"
  /\ IF Len(received) <= 4
     THEN Return("ok") /\ UNCHANGED << received, gwVars >>
     ELSE LET mem == received \o heap
              walk == RtGenericWalk(mem, RtMsghdrSIZE, rtm_addrs(mem), 1, BSD_RTA_GATEWAY,
                                    family, << >>)
          IN  CASE RecordCheck(received) = "invalid" ->
                     Return("invalid") /\ UNCHANGED << received, gwVars >>
                [] RecordCheck(received) = "skip" \/ received[4] # RTM_GET ->
                     NextRecord /\ UNCHANGED << pc, status, guards, closes, gwVars >>
                [] OTHER ->
                     IF Len(mem) < 16
                     THEN Return("crash") /\ UNCHANGED << received, gwVars >>
                     ELSE IF BitAnd(rtm_flags(mem)[2], RTF_UP + RTF_GATEWAY) = 0
                     THEN NextRecord /\ UNCHANGED << pc, status, guards, closes, gwVars >>
                     ELSE IF walk.crash
                     THEN Return("crash") /\ UNCHANGED << received, gwVars >>
                     ELSE /\ gateways' = PushGateways(gateways, family, rtm_index(mem),
                                                      walk.found, f)
                          /\ NextRecord
                          /\ UNCHANGED << pc, status, guards, closes, tmp_addrs, current_ifi >>
  /\ UNCHANGED << frameVars, walkVars, linkVars, addrVars, bestVars >>

\* u32::swap_bytes on a u32 kept as (high half, low half)
swap_bytes(w) ==
  << (w[2] % 256) * 256 + (w[2] \div 256), (w[1] % 256) * 256 + (w[1] \div 256) >>

\* Ipv4Addr::from(u32): the octets are the big-endian bytes of the number
Ipv4AddrFrom(w) == << w[1] \div 256, w[1] % 256, w[2] \div 256, w[2] % 256 >>

\* a variant that looks at the route's flags only
is_network_route_by_flags(addr, flags) == BitAnd(flags[2], RTF_HOST) = 0

\* is_network_route(&addr, rtm)
is_network_route(addr, flags) ==
  IF BitAnd(flags[2], RTF_HOST) # 0 THEN FALSE
  ELSE IF IsV4(addr)
  THEN ~(addr = << 255, 255, 255, 255 >> \/ addr[4] # 0 \/ AllZero(addr))
  ELSE AllZero(SubSeq(addr, 9, 16))

\* the pushes of one record's destination addresses in rt_net_addrs_in
RECURSIVE PushNetworks(_, _, _, _, _, _)
PushNetworks(results, fam, index, flags, ips, pred) ==
  IF ips = << >> THEN results
  ELSE LET raw == Head(ips)
           addr == IF IsV4(raw) THEN Ipv4AddrFrom(swap_bytes(Rd32Wide(raw, 0))) ELSE raw
           made == IF AllZero(raw) \/ ~is_network_route(addr, flags) THEN << >>
                   ELSE AddrTryFromWithFilter(fam, index, addr, pred)
           pushed == IF made # << >> /\ (\A k \in 1..Len(results) : results[k] # made[1])
                     THEN results \o made ELSE results
       IN  PushNetworks(pushed, fam, index, flags, Tail(ips), pred)

\* rt_net_addrs_in: one iteration of `while src.len() > 4`
BsdNetRecord ==
  /\ pc = "rec" /\ query = "bsd_net"
  /\ IF Len(received) <= 4
     THEN Return("ok") /\ UNCHANGED << received, gwVars >>
     ELSE LET mem == received \o heap
              walk == SockaddrWalk(mem, RtMsghdrSIZE, rtm_addrs(mem), 1, RTA_DST, family, << >>)
          IN  CASE RecordCheck(received) = "invalid" ->
                     Return("invalid") /\ UNCHANGED << received, gwVars >>
                [] RecordCheck(received) = "skip" \/ received[4] # RTM_GET ->
                     NextRecord /\ UNCHANGED << pc, status, guards, closes, gwVars >>
                [] OTHER ->
                     IF Len(mem) < 16
                     THEN Return("crash") /\ UNCHANGED << received, gwVars >>
                     ELSE IF \/ BitAnd(rtm_flags(mem)[2], RTF_UP) = 0
                             \/ BitAnd(rtm_flags(mem)[2], RTF_HOST) # 0
                             \/ BitAnd(rtm_flags(mem)[1], RTF_IFSCOPE \div 65536) # 0
                     THEN NextRecord /\ UNCHANGED << pc, status, guards, closes, gwVars >>
                     ELSE IF walk.crash
                     THEN Return("crash") /\ UNCHANGED << received, gwVars >>
                     ELSE /\ gateways' = PushNetworks(gateways, family, rtm_index(mem),
                                                      rtm_flags(mem), walk.found, f)
                          /\ NextRecord
                          /\ UNCHANGED << pc, status, guards, closes, tmp_addrs, current_ifi >>
  /\ UNCHANGED << frameVars, walkVars, linkVars, addrVars, bestVars >>

\* SmallVec::dedup: of equal neighbours the first is kept
RECURSIVE dedup(_)
dedup(v) ==
  IF Len(v) < 2 THEN v
  ELSE IF v[1] = v[2] THEN dedup(Tail(v))
  ELSE << v[1] >> \o dedup(Tail(v))

\* Ipv4Addr::is_loopback / Ipv6Addr::is_loopback
is_loopback(ip) == IF IsV4(ip) THEN ip[1] = 127 ELSE ip = Zeros(15) \o << 1 >>

\* valid_ifindices.contains(&index)
Contains(v, index) == \E k \in 1..Len(v) : v[k] = index

\* all_local_ip_addrs_in: one iteration of `while src.len() > 4` over the
\* route dump
BsdLocalRecord ==
  /\ pc = "rec" /\ query = "bsd_local"
  /\ IF Len(received) <= 4
     THEN pc' = "select"
          /\ UNCHANGED << status, guards, closes, received, valid_ifindices, up_routes >>
     ELSE LET mem == received \o heap
          IN  CASE RecordCheck(received) = "invalid" ->
                     Return("invalid") /\ UNCHANGED << received, valid_ifindices, up_routes >>
                [] RecordCheck(received) = "skip" ->
                     /\ NextRecord
                     /\ UNCHANGED << pc, status, guards, closes, valid_ifindices, up_routes >>
                [] OTHER ->
                     IF Len(mem) < 16
                     THEN \* rtm_flags lies outside the mapped bytes
                          Return("crash") /\ UNCHANGED << received, valid_ifindices, up_routes >>
                     ELSE IF BitAnd(rtm_flags(mem)[2], RTF_UP) = 0
                     THEN /\ NextRecord
                          /\ UNCHANGED << pc, status, guards, closes, valid_ifindices, up_routes >>
                     ELSE /\ valid_ifindices' = Append(valid_ifindices, rtm_index(mem))
                          /\ up_routes' = up_routes \cup { rtm_index(mem) }
                          /\ NextRecord
                          /\ UNCHANGED << pc, status, guards, closes >>
  /\ UNCHANGED << query, family, ifi, f, heap, call, prev, snapshot, other,
                  nl_pid, nsock, lsa_pid, wire, walkVars, resultVars >>

\* valid_ifindices.dedup() and `match valid_ifindices.len()`: the call of
\* interface_addr_table(family, valid_ifindices[0], f) or (family, 0, f)
BsdLocalSelect ==
  /\ pc = "select" /\ query = "bsd_local"
  /\ valid_ifindices' = dedup(valid_ifindices)
  /\ IF Len(valid_ifindices') = 0
     THEN Return("ok") /\ UNCHANGED << query, ifi, received, heap >>
     ELSE /\ query' = "bsd_addr"
          /\ ifi' = IF Len(valid_ifindices') = 1 /\ valid_ifindices'[1] # 0
                    THEN valid_ifindices'[1] ELSE 0
          /\ pc' = "fetch"
          /\ received' = << >>
          /\ heap' = << >>
          /\ UNCHANGED << status, guards, closes >>
  /\ UNCHANGED << family, f, histVars, snapshot, nl_pid, nsock, lsa_pid, wire,
                  walkVars, resultVars >>

\* `.filter(|i| !i.addr().is_loopback() && valid_ifindices.contains(&i.index()))`
BsdLocalFilter ==
  /\ pc = "filter"
  /\ LET kept(a) == ~is_loopback(a.addr) /\ Contains(valid_ifindices, a.index)
     IN  addrs' = SelectSeq(addrs, kept)
  /\ Return("ok")
  /\ UNCHANGED << frameVars, received, walkVars, linkVars, bestVars, gwVars,
                  attrs, entry, origin >>

\* what a caller's next call starts from: nothing of the earlier call is left
\* but what the caller kept
FreshCall(start) ==
  /\ pc' = start /\ status' = "running"
  /\ nl_pid' = 0 /\ lsa_pid' = 0 /\ nsock' = 0 /\ guards' = << >> /\ closes' = << >>
  /\ wire' = << >> /\ received' = << >>
  /\ l' = 0 /\ hdr' = NoHdr /\ abuf' = << >>
  /\ interface' = NoInterface /\ interfaces' = << >>
  /\ attrs' = << >> /\ addrs' = << >> /\ entry' = << >> /\ origin' = << >>
  /\ UNCHANGED << bestVars, gwVars, heap, valid_ifindices, snapshot, up_routes, other >>

\* interface_by_index(ifi.index()), for one `ifi` of the table interfaces()
\* returned, as in `for ifi in ift { interface_by_index(ifi.index()) }`
interface_by_index ==
  /\ call = "link" /\ ifi = 0 /\ pc = "done" /\ status = "ok"
  /\ \E i \in 1..Len(interfaces) : ifi' = interfaces[i].index
  /\ prev' = interfaces
  /\ call' = "interface_by_index"
  /\ FreshCall("socket")
  /\ UNCHANGED << query, family, f >>

\* Interface::addrs and its per-family forms, for the interface of one of the
\* addresses the best-local query returned: os::interface_addresses(index, |_| true)
interface_addresses ==
  /\ call \in { "best", "bsd_best" } /\ pc = "done" /\ status = "ok"
  /\ \E i \in 1..Len(addrs) : ifi' = addrs[i].index
  /\ prev' = addrs
  /\ call' = "addrs"
  /\ f' = "any"
  /\ FreshCall(IF query \in BsdQueries THEN "fetch" ELSE "socket")
  /\ UNCHANGED << query, family >>

Next ==
  \/ Socket \/ Bind \/ SendTo \/ GetSockName \/ RecvFrom
  \/ LinkMsg \/ LinkAttr
  \/ AddrMsg \/ AddrAttr
  \/ BestMsg \/ BestAttr \/ BestSelect
  \/ GwMsg \/ GwAttr
  \/ Fetch \/ BsdLinkRecord \/ BsdAddrRecord
  \/ BsdBestRecord \/ BsdBestSelect \/ BsdGwRecord \/ BsdRtRecord
  \/ BsdLocalRecord \/ BsdLocalSelect \/ BsdLocalFilter
  \/ interface_by_index \/ interface_addresses

Spec == Init /\ [][Next]_vars

\* interfaces() alone, run by a thread that is scheduled as long as it has a
\* step to take
InitLink == Init /\ call = "link" /\ ifi = 0
NextLink == Socket \/ Bind \/ SendTo \/ GetSockName \/ RecvFrom \/ LinkMsg \/ LinkAttr
FairLinkSpec == InitLink /\ [][NextLink]_vars /\ WF_vars(NextLink)

(* ------------------------------------------------------------------ *)
(* Windows: the adapter list and interface_table                        *)
(* ------------------------------------------------------------------ *)
NO_ERROR == 0

\* The adapters GetAdaptersAddresses may report.  `res` and `IfIndex` are what
\* ConvertInterfaceLuidToIndex answers for the adapter's Luid; Ipv6IfIndex is
\* 0 on an adapter that has no IPv6.  The conversion of Luid 3 fails with
\* ERROR_INVALID_PARAMETER (87).
WinAdapters ==
  [ Luid : { 1, 2 }, res : { NO_ERROR }, IfIndex : { 1, 2 }, Ipv6IfIndex : { 0, 1, 2 },
    OperUp : { TRUE } ]
    \cup [ Luid : { 3 }, res : { 87 }, IfIndex : { 0 },
           Ipv6IfIndex : { 0, 3 }, OperUp : { FALSE } ]

\* ConvertInterfaceLuidToIndex(&adapter.Luid, &mut index) with index = 0 before
\* the call: the result code, and what `index` holds afterwards
ConvertInterfaceLuidToIndex(adapter) ==
  [ res |-> adapter.res,
    index |-> IF adapter.res = NO_ERROR THEN adapter.IfIndex ELSE 0 ]

\* the index the loop body works with
AdapterIndex(adapter) ==
  LET conv == ConvertInterfaceLuidToIndex(adapter)
  IN  IF conv.res = NO_ERROR THEN adapter.Ipv6IfIndex ELSE conv.index

\* Information::fetch: GetAdaptersAddresses, and the list it returns
WinFetch ==
  /\ pc = "fetch" /\ query \in WinQueries
  /\ \/ /\ Return("oserr")
        /\ UNCHANGED received
     \/ /\ \E adapters \in SeqsUpTo(WinAdapters, MaxMsgs) : received' = adapters
        /\ pc' = "rec"
        /\ UNCHANGED << status, guards, closes >>
  /\ UNCHANGED << frameVars, walkVars, resultVars >>

\* interface_table: one iteration of `for adapter in info.adapters.iter()`
WinLinkAdapter ==
  /\ pc = "rec" /\ query = "win_link"
  /\ IF received = << >>
     THEN Return("ok") /\ UNCHANGED << received, linkVars >>
     ELSE LET adapter == Head(received)
              index == AdapterIndex(adapter)
              flags == IF adapter.OperUp THEN 33 ELSE 0
          IN  IF ifi = 0 \/ ifi = index
              THEN /\ interfaces' = Append(interfaces, InterfaceNew(index, flags))
                   /\ IF ifi = index
                      THEN \* `if idx == ifindex { break; }`
                           Return("ok") /\ UNCHANGED << received, interface >>
                      ELSE /\ received' = Tail(received)
                           /\ UNCHANGED << pc, status, guards, closes, interface >>
              ELSE /\ received' = Tail(received)
                   /\ UNCHANGED << pc, status, guards, closes, linkVars >>
  /\ UNCHANGED << frameVars, walkVars, addrVars, bestVars, gwVars >>

InitWin ==
  /\ query = "win_link" /\ family = AF_UNSPEC /\ ifi \in IfiArgs /\ f = "any"
  /\ call = query
  /\ up_routes = { }
  /\ Entered
NextWin == WinFetch \/ WinLinkAdapter
WinSpec == InitWin /\ [][NextWin]_vars

\* the network-route query alone
InitNet ==
  /\ query = "bsd_net" /\ family \in { AF_UNSPEC, AF_INET, BSD_AF_INET6 } /\ ifi = 0 /\ f = "any"
  /\ call = query
  /\ up_routes = { }
  /\ Entered
NextNet == Fetch \/ BsdNetRecord
NetSpec == InitNet /\ [][NextNet]_vars

\* interfaces() on a socket whose queue holds more than the dump: the links,
\* each of them well formed, the terminator, and then what the kernel queued
\* behind it
PlainLinks(pid) ==
  { KMsg(RTM_NEWLINK, ReqSeq, pid, KIfInfo(ARPHRD_ETHER, 1, 1)),
    KMsg(RTM_NEWLINK, ReqSeq, pid,
         KIfInfo(ARPHRD_ETHER, 2, 3) \o KAttr(IFLA_MTU, Le32(1500)) \o KAttr(IFLA_ADDRESS, Mac1)) }
PastDone(pid) ==
  { << >>,
    KMsg(RTM_NEWLINK, ReqSeq, pid, KIfInfo(ARPHRD_ETHER, 9, 1)),
    KMsgRaw(8, NLMSG_NOOP, ReqSeq, pid, << >>) }

\* sendto(sock, req) when the kernel queues something behind the terminator,
\* in the transmission that carries the terminator or in one of its own
SendToPastDone ==
  /\ pc = "send"
  /\ \/ /\ Return("oserr")
        /\ UNCHANGED << wire, snapshot >>
     \/ /\ \E msgs \in SeqsUpTo(PlainLinks(nl_pid), MaxMsgs), late \in PastDone(nl_pid) :
             \E d \in Datagrams(msgs, nl_pid) :
               \E w \in { [ d EXCEPT ![Len(d)] = @ \o late ] }
                          \cup { Append(d, late) : x \in { late } \ { << >> } } :
                 /\ wire' = w
                 /\ snapshot' = Kept(w)
        /\ pc' = "getsockname"
        /\ UNCHANGED << status, guards, closes >>
  /\ UNCHANGED << argVars, nl_pid, nsock, lsa_pid, received, walkVars, resultVars >>

NextPastDone ==
  Socket \/ Bind \/ SendToPastDone \/ GetSockName \/ RecvFrom \/ LinkMsg \/ LinkAttr
PastDoneSpec == InitLink /\ [][NextPastDone]_vars

(* ------------------------------------------------------------------ *)
(* Two threads of one process, each in interfaces()                     *)
(* ------------------------------------------------------------------ *)
\* the locals of the running thread's call, its socket and what the kernel
\* has queued on that socket
Context ==
  [ pc |-> pc, status |-> status, guards |-> guards,
    nl_pid |-> nl_pid, lsa_pid |-> lsa_pid, wire |-> wire, snapshot |-> snapshot,
    received |-> received, l |-> l, hdr |-> hdr, abuf |-> abuf,
    interface |-> interface, interfaces |-> interfaces ]

\* a variant in which the two calls work on one socket
SwitchOnOneSocket ==
  /\ other # NoContext
  /\ other' = Context
  /\ pc' = other.pc /\ status' = other.status /\ guards' = other.guards
  /\ received' = other.received /\ l' = other.l /\ hdr' = other.hdr /\ abuf' = other.abuf
  /\ interface' = other.interface /\ interfaces' = other.interfaces
  /\ snapshot' = other.snapshot
  /\ UNCHANGED << query, family, ifi, f, heap, valid_ifindices, call, prev, up_routes,
                  nl_pid, lsa_pid, wire, nsock, closes, addrVars, bestVars, gwVars >>

\* the scheduler takes the processor from one thread and gives it to the other:
\* every local of netlink_interface, the socket among them, belongs to the call
Switch ==
  /\ other # NoContext
  /\ other' = Context
  /\ pc' = other.pc /\ status' = other.status /\ guards' = other.guards
  /\ nl_pid' = other.nl_pid /\ lsa_pid' = other.lsa_pid /\ wire' = other.wire
  /\ received' = other.received /\ l' = other.l /\ hdr' = other.hdr /\ abuf' = other.abuf
  /\ interface' = other.interface /\ interfaces' = other.interfaces
  /\ snapshot' = other.snapshot
  /\ UNCHANGED << query, family, ifi, f, heap, valid_ifindices, call, prev, up_routes,
                  nsock, closes, addrVars, bestVars, gwVars >>

\* sendto(sock, req): the kernel queues the links it has, each well formed, on
\* the socket the request came from
SendToOwn ==
  /\ pc = "send"
  /\ \/ /\ Return("oserr")
        /\ UNCHANGED << wire, snapshot >>
     \/ /\ \E msgs \in SeqsUpTo(PlainLinks(nl_pid), MaxLinksEach) :
             \E d \in Datagrams(msgs, nl_pid) :
               /\ wire' = d
               /\ snapshot' = Kept(d)
        /\ pc' = "getsockname"
        /\ UNCHANGED << status, guards, closes >>
  /\ UNCHANGED << argVars, nl_pid, nsock, lsa_pid, received, walkVars, resultVars >>

InitTwo ==
  /\ query = "link" /\ family = AF_UNSPEC /\ ifi = 0 /\ f = "any"
  /\ call = query
  /\ up_routes = { }
  /\ heap = << >> /\ valid_ifindices = << >> /\ prev = << >>
  /\ nsock = 0 /\ closes = << >>
  /\ attrs = << >> /\ addrs = << >> /\ entry = << >> /\ origin = << >>
  /\ current_metric = NoMetric /\ current_oif = None /\ best_ifindex = None
  /\ best_metric = U32MAX /\ cands = << >> /\ best_route = NoHdr
  /\ tmp_addrs = << >> /\ current_ifi = 0 /\ gateways = << >>
  /\ pc = "socket" /\ status = "running" /\ guards = << >>
  /\ nl_pid = 0 /\ lsa_pid = 0 /\ wire = << >> /\ snapshot = << >>
  /\ received = << >> /\ l = 0 /\ hdr = NoHdr /\ abuf = << >>
  /\ interface = NoInterface /\ interfaces = << >>
  /\ other = Context
NextTwo ==
  Socket \/ Bind \/ SendToOwn \/ GetSockName \/ RecvFrom \/ LinkMsg \/ LinkAttr \/ Switch
TwoSpec == InitTwo /\ [][NextTwo]_vars

(* ------------------------------------------------------------------ *)
(* Properties                                                           *)
(* ------------------------------------------------------------------ *)
\* the message loop is about to decode the header at the head of `received`
AtMessage == pc = "msg" /\ Len(received) >= NLMSG_HDRLEN

\* the attribute loop is about to decode the header at the head of `abuf`
AtAttribute == pc = "attr" /\ Len(abuf) >= RtAttrSIZE

\* the results the four queries accumulate
Produced == << interfaces, addrs, gateways, best_ifindex, best_metric >>

\* C1: in every netlink dump query, a received message whose sequence number
\* or port id is not the request's makes the call fail with the protocol
\* error, and nothing is produced from it.
C1_MismatchFailsEveryQuery ==
  [][ (AtMessage /\ NotOurs(decode_nlmsghdr(received), lsa_pid))
        => (status' = "EINVAL" /\ UNCHANGED Produced /\ pc' = "done") ]_vars

\* C2: in every netlink dump query, a received message whose length field is
\* below the header size, or whose aligned length exceeds the bytes left in
\* the receive buffer, makes the call fail with the decode error.
C2_BadLengthFailsEveryQuery ==
  [][ (AtMessage /\ BadLength(decode_nlmsghdr(received), received))
        => status' = "EINVAL" ]_vars

\* C3: in every netlink attribute walk, an attribute whose length field is
\* below the 4-byte attribute header, or above the bytes that remain, makes
\* the whole call fail with the decode error.
C3_BadAttributeFailsEveryWalk ==
  [][ (AtAttribute /\ BadAttr(RtAttr(abuf), abuf))
        => status' = "EINVAL" ]_vars

\* whether the attribute area `buf` of one message carries an attribute of type ty
RECURSIVE Carries(_, _)
Carries(buf, ty) ==
  IF Len(buf) < RtAttrSIZE THEN FALSE
  ELSE LET a == RtAttr(buf)
       IN  IF a.len < RtAttrSIZE \/ a.len > Len(buf) THEN FALSE
           ELSE a.ty = ty
                  \/ (rta_align_of(a.len) <= Len(buf) /\ Carries(Drop(buf, rta_align_of(a.len)), ty))

\* the attribute area of an address message
AddrAttrArea(msg) == Drop(msg, NLMSG_HDRLEN + IfNetMessageHeaderSIZE)

\* C4: no address in the result comes from the IFA_ADDRESS attribute of a
\* NEWADDR entry that carries IFA_LOCAL; and when an entry's attributes have
\* been collected, the point-to-point decision equals "this entry carries
\* IFA_LOCAL", whatever other entries the dump holds.
C4_PeerAddressSuppressedPerEntry ==
  /\ \A i \in 1..Len(origin) :
       origin[i].ty = IFA_ADDRESS => ~Carries(AddrAttrArea(origin[i].entry), IFA_LOCAL)
  /\ (query = "addr" /\ pc = "attr" /\ Len(abuf) < RtAttrSIZE /\ (ifi = 0 \/ ifi = hdr.index))
       => (PointToPoint(attrs) <=> Carries(AddrAttrArea(entry), IFA_LOCAL))

\* C4 witness: a finished dump that interleaves a point-to-point entry of one
\* interface, whose own address was produced from IFA_LOCAL while it also
\* carried a peer in IFA_ADDRESS, with an entry of another interface whose
\* IFA_ADDRESS was produced.
C4_Witness ==
  /\ pc = "done" /\ status = "ok"
  /\ \E i, j \in 1..Len(origin) :
       /\ origin[i].ty = IFA_LOCAL
       /\ Carries(AddrAttrArea(origin[i].entry), IFA_ADDRESS)
       /\ origin[j].ty = IFA_ADDRESS
       /\ addrs[i].index # addrs[j].index

\* the link-layer address attribute at the head of the walk of a NEWLINK message
AtLinkAddress ==
  query = "link" /\ AtAttribute /\ ~BadAttr(RtAttr(abuf), abuf) /\ RtAttr(abuf).ty = IFLA_ADDRESS

\* the length of the payload of the attribute at the head of the walk
PayloadLen == RtAttr(abuf).len - RtAttrSIZE

C6_HardwareAddressSixBytesNotZero ==
  \A i \in 1..Len(interfaces) :
    interfaces[i].mac_addr # << >>
      => (Len(interfaces[i].mac_addr) = MAC_ADDRESS_SIZE /\ ~AllZero(interfaces[i].mac_addr))

\* C7: best-local-address selection only ever picks the output interface of a
\* route whose destination is the unspecified address (on Linux: prefix
\* length 0) and, where the dump carries the flag, that is UP; with no such
\* route in the dump nothing is selected.
C7_OnlyDefaultRoutesSelected ==
  /\ (query = "best" /\ best_ifindex # None) => best_route.rtm_dst_len = 0
  /\ (query = "bsd_best" /\ best_ifindex # None)
       => BitAnd(best_route.rtm_flags[2], RTF_UP) = RTF_UP

\* every candidate met so far is a default route with a metric and an output interface
AllCandidatesComplete ==
  /\ cands # << >>
  /\ \A i \in 1..Len(cands) :
       cands[i].dst_len = 0 /\ cands[i].metric # NoMetric /\ cands[i].oif # None

\* C8: when every candidate default route carries a metric and an output
\* interface, the interface selected at the end of the dump is the output
\* interface of a candidate whose metric is the minimum over all candidates.
C8_MinimumMetricSelected ==
  (query \in { "best", "bsd_best" } /\ pc = "select" /\ AllCandidatesComplete)
    => \E i \in 1..Len(cands) :
         /\ best_ifindex = cands[i].oif
         /\ \A j \in 1..Len(cands) : ~U32Lt(cands[j].metric, cands[i].metric)

\* the step that ends a candidate route's attribute walk and updates the best route
AtBestUpdate ==
  query = "best" /\ pc = "attr" /\ Len(abuf) < RtAttrSIZE /\ l <= Len(received)

\* the BSD scan stands at a record
AtBsdBestRecord == query = "bsd_best" /\ pc = "rec" /\ Len(received) > 4

\* C9: the best route is replaced only by a later candidate with a strictly
\* lower metric; an equal metric never replaces it; a candidate without a
\* metric is selected only if none was selected before it.
C9_ReplacedOnlyByStrictlyLower ==
  [][ /\ (AtBestUpdate /\ << best_ifindex', best_metric' >> # << best_ifindex, best_metric >>)
           => /\ current_oif # None /\ best_ifindex' = current_oif
              /\ \/ current_metric # NoMetric /\ U32Lt(current_metric, best_metric)
                      /\ best_metric' = current_metric
                 \/ current_metric = NoMetric /\ best_ifindex = None
      /\ (AtBsdBestRecord /\ << best_ifindex', best_metric' >> # << best_ifindex, best_metric >>)
           => /\ U32Lt(best_metric', best_metric)
              /\ best_metric' = rmx_recvpipe(received \o heap)
              /\ best_ifindex' = rtm_index(received \o heap) ]_vars

\* C9 witness: a candidate with the metric of the current best route, and
\* another output interface, has just been scanned and the best route stayed.
C9_Witness ==
  /\ query = "best" /\ pc = "msg" /\ Len(cands) >= 2
  /\ cands[Len(cands)].metric = best_metric
  /\ cands[Len(cands)].oif # None
  /\ cands[Len(cands)].oif # best_ifindex
  /\ best_ifindex = cands[1].oif

\* C10: no (interface index, gateway address) entry appears twice in the
\* result of a gateway query.
C10_GatewaysDeduplicated ==
  \A i, j \in 1..Len(gateways) : i # j => gateways[i] # gateways[j]

\* C11: a gateway query never returns a zero-valued gateway address (0.0.0.0
\* or ::): a route whose gateway attribute is all zero contributes nothing.
C11_NoZeroGateway ==
  \A i \in 1..Len(gateways) : ~AllZero(gateways[i].addr)

\* C13: every address in the result of an address query has a prefix length
\* of at most 32 when it is IPv4 and at most 128 when it is IPv6, whatever
\* prefix-length byte the kernel record carried.
C13_PrefixWithinFamily ==
  \A i \in 1..Len(addrs) :
    /\ addrs[i].prefix_len >= 0
    /\ Len(addrs[i].addr) = 4 => addrs[i].prefix_len <= 32
    /\ Len(addrs[i].addr) = 16 => addrs[i].prefix_len <= 128

\* C13 witness: the walk met an IPv4 entry with prefix length 33 and the call
\* ended there, after an IPv4 host address (prefix length 32) was produced.
C13_Witness ==
  /\ query = "addr" /\ pc = "done" /\ status = "panic"
  /\ hdr # NoHdr /\ hdr.family = AF_INET /\ hdr.prefix_len = 33
  /\ \E i \in 1..Len(addrs) : Len(addrs[i].addr) = 4 /\ addrs[i].prefix_len = 32

\* the bytes a record walk needs before it reads another record
WalkHeader == IF query = "bsd_addr" THEN HEADER_SIZE ELSE 4

\* C17: in every record walk over a routing-socket buffer, a record whose
\* length field is 0, or exceeds the bytes remaining, makes the call fail
\* with a decode error.
C17_BadRecordLengthIsDecodeError ==
  [][ ( /\ query \in BsdQueries /\ pc = "rec"
        /\ Len(received) > WalkHeader
        /\ \/ Rd16(received, 0) = 0
           \/ Rd16(received, 0) > Len(received) )
      => (pc' = "done" /\ status' = "invalid") ]_vars

NetlinkQueries == { "link", "addr", "best", "gateway" }

\* how many times descriptor d was closed
TimesClosed(d) == Cardinality({ i \in 1..Len(closes) : closes[i] = d })

\* C18: every netlink query closes each socket it opened exactly once before
\* it returns, on every exit path (success, a failing OS call after the socket
\* was created, a decode or protocol error while parsing); no descriptor is
\* ever closed twice or closed while its guard is still alive.
C18_SocketClosedExactlyOnce ==
  query \in NetlinkQueries =>
    /\ \A d \in 1..nsock : TimesClosed(d) <= 1
    /\ \A i \in 1..Len(guards) : TimesClosed(guards[i]) = 0
    /\ pc = "done" =>
         /\ guards = << >>
         /\ Len(closes) = nsock
         /\ \A d \in 1..nsock : TimesClosed(d) = 1

\* C18 witness: the address query nested in a best-local query ended in a
\* decode error after both sockets were opened, and both were closed.
C18_Witness ==
  /\ query \in NetlinkQueries /\ pc = "done"
  /\ status \in { "invalid", "EINVAL" }
  /\ nsock = 2 /\ closes = << 2, 1 >>

\* every address and gateway of the result was accepted by the predicate
ResultAccepted ==
  /\ \A i \in 1..Len(addrs) : Accepts(f, addrs[i].addr)
  /\ \A i \in 1..Len(gateways) : Accepts(f, gateways[i].addr)

\* the address query is about to run the constructor loop over an entry whose
\* collected attributes all hold an address the predicate rejects
AllCandidatesRejected ==
  /\ query = "addr" /\ pc = "attr" /\ Len(abuf) < RtAttrSIZE
  /\ attrs # << >>
  /\ hdr.family \in { AF_INET, AF_INET6 }
  /\ \A i \in 1..Len(attrs) :
       LET size == IF hdr.family = AF_INET THEN 4 ELSE 16
       IN  /\ Len(attrs[i].vbuf) >= size
           /\ ~Accepts(f, Take(attrs[i].vbuf, size))

\* C19: the caller's predicate is evaluated on the candidate address before
\* the entity is constructed (an entry whose candidates are all rejected adds
\* nothing and never reaches the constructor's prefix assertion), and a
\* candidate the predicate rejects never appears in the result.
C19_PredicateBeforeConstruction ==
  /\ []ResultAccepted
  /\ [][ AllCandidatesRejected => (status' = "running" /\ addrs' = addrs) ]_vars

\* C19 witness: an address query with the local-address predicate walked the
\* loopback entry whose prefix length is 33 and returned normally.
C19_Witness ==
  /\ query = "addr" /\ f = "local" /\ pc = "done" /\ status = "ok"
  /\ hdr # NoHdr /\ hdr.family = AF_INET /\ hdr.prefix_len = 33

\* whether s is the beginning of t
IsPrefix(s, t) == s = t \/ (Len(s) < Len(t) /\ s = SubSeq(t, 1, Len(s)))

\* whether s is the end of t
IsSuffix(s, t) ==
  s = t \/ (Len(s) < Len(t) /\ s = SubSeq(t, Len(t) - Len(s) + 1, Len(t)))

\* one step of a netlink query: transmissions are taken first-in first-out,
\* the cursor inside a transmission only moves forward, every new address is
\* decoded from the message at the cursor, and new records are only ever
\* added behind the earlier ones
OrderKeptStep ==
  /\ IsPrefix(interfaces, interfaces')
  /\ IsPrefix(addrs, addrs')
  /\ IsPrefix(gateways, gateways')
  /\ \A i \in (Len(addrs) + 1)..Len(addrs') : IsPrefix(origin'[i].entry, received)
  /\ \/ IsSuffix(received', received) /\ wire' = wire
     \/ pc = "send" /\ received' = received
     \/ pc = "select" /\ received' = << >> /\ wire' = << >>
     \/ /\ pc = "recv" /\ wire # << >> /\ wire' = Tail(wire)
        /\ received' \in { received, Head(wire) }

\* C20: within one call the returned records keep the order in which the
\* kernel emitted the messages they were decoded from, across all receive
\* calls of the dump.
C20_EmissionOrderKept ==
  [][ (query \in NetlinkQueries /\ call' = call) => OrderKeptStep ]_vars

\* C20 witness: a gateway dump sent in two transmissions; the first one gave
\* one gateway, the second one is still queued behind it.
C20_Witness ==
  /\ query = "gateway" /\ pc = "recv" /\ status = "running"
  /\ Len(gateways) = 1 /\ wire # << >>

\* no two interfaces of the table carry the same index
DistinctIndices(ift) ==
  \A i, j \in 1..Len(ift) : ift[i].index = ift[j].index => i = j

\* C12: for a fixed kernel snapshot (in which every link has its own index),
\* for every interface x of the full table, the table asked for x's index
\* holds exactly one interface, and it equals x in index, name, MTU, flags
\* and hardware address.
C12_RoundTripByIndex ==
  ( /\ call = "interface_by_index" /\ pc = "done" /\ status # "oserr"
    /\ DistinctIndices(prev) )
  => /\ status = "ok"
     /\ \A i \in 1..Len(prev) : prev[i].index = ifi => interfaces = << prev[i] >>

\* C12 witness: the full table held two links, and the second one was asked
\* for again by its index and came back.
C12_Witness ==
  /\ call = "interface_by_index" /\ pc = "done" /\ status = "ok"
  /\ Len(prev) = 2 /\ DistinctIndices(prev)
  /\ prev[2].index = ifi /\ interfaces = << prev[2] >>

\* C14: for a fixed kernel snapshot, every address the best-local query
\* returned also appears in the addresses listed for the interface index it
\* carries, and all addresses of one best-local result carry the same index,
\* the one of the best default route.
C14_BestWithinScopedList ==
  (call = "addrs" /\ pc = "done" /\ status = "ok")
  => /\ \A i \in 1..Len(prev) :
          prev[i].index = ifi => \E j \in 1..Len(addrs) : addrs[j] = prev[i]
     /\ \A i \in 1..Len(prev) : prev[i].index = best_ifindex

\* C14 witness: the best-local query returned an address, and the addresses
\* of that interface were then listed from the same snapshot.
C14_Witness ==
  /\ call = "addrs" /\ pc = "done" /\ status = "ok"
  /\ prev # << >> /\ \E j \in 1..Len(addrs) : addrs[j] = prev[1]

\* the all-local-addresses query of either backend has returned its result
AllLocalReturned == call \in { "local", "bsd_local" } /\ pc = "done" /\ status = "ok"

\* C15: every address an all-local-addresses query returns is on an
\* interface that is the interface of at least one UP route of the kernel's
\* route table; an address on an interface without an UP route is never
\* returned.
C15_OnlyInterfacesWithUpRoute ==
  AllLocalReturned => \A i \in 1..Len(addrs) : addrs[i].index \in up_routes

\* C16: an all-local-addresses query never returns a loopback address,
\* whatever the caller's predicate and whether one or several interface
\* indices qualify.
C16_NeverLoopback ==
  AllLocalReturned => \A i \in 1..Len(addrs) : ~is_loopback(addrs[i].addr)

\* C27: decoding a NEWLINK message always terminates: the attribute loop of
\* netlink_interface is left again (for the next message, or with an error),
\* also for a GRE/tunnel link that carries a hardware-address attribute of
\* length 4 or 16.
C27_LinkDecodingTerminates ==
  (query = "link" /\ pc = "attr") ~> (pc # "attr")

\* a route walk is about to decode a record of the current message format
\* whose header lies inside the dump
AtRouteRecord ==
  /\ query \in { "bsd_best", "bsd_gateway", "bsd_rt" } /\ pc = "rec"
  /\ Len(received) >= RtMsghdrSIZE
  /\ RecordCheck(received) = "take"

\* C25: every walker advances from one socket address to the next by the
\* socket address's length rounded up to the platform's kernel alignment, so
\* on every record the walkers find the same socket addresses: the walk of
\* gateway_addrs_in and bast_local_ip_addrs_in and the walk of
\* rt_generic_addrs_in agree on the destination and on the gateway.
C25_WalkersAgree ==
  AtRouteRecord =>
    \A want \in { RTA_DST, BSD_RTA_GATEWAY } :
      SockaddrWalk(received \o heap, RtMsghdrSIZE, rtm_addrs(received), 1, want,
                   AF_UNSPEC, << >>)
        = RtGenericWalk(received \o heap, RtMsghdrSIZE, rtm_addrs(received), 1, want,
                        AF_UNSPEC, << >>)
\* a gateway walk is about to decode a record of the current message format
\* whose flags do not have RTF_UP
AtNotUpRecord ==
  /\ query \in { "bsd_rt", "bsd_gateway" } /\ pc = "rec"
  /\ Len(received) >= RtMsghdrSIZE
  /\ RecordCheck(received) = "take"
  /\ BitAnd(rtm_flags(received)[2], RTF_UP) = 0

\* C23: the gateway extraction considers only routes that are UP: a record
\* whose flags lack RTF_UP adds nothing to the gateways found so far.
C23_OnlyUpRoutesContribute ==
  [][ AtNotUpRecord => (gateways' = gateways) ]_vars

\* the bytes of the record a route walk is at, as its length field declares them
DeclaredRecord == Take(received, Rd16(received, 0))

\* C30: a route walker never reads beyond the declared length of the record
\* while it walks the socket addresses: on the bytes of the record alone, with
\* nothing readable after them, each walk finds every byte it reads.
C30_WalkStaysInsideRecord ==
  (AtRouteRecord /\ BitAnd(rtm_flags(received)[2], RTF_UP) # 0) =>
    /\ ~RtGenericWalk(DeclaredRecord, RtMsghdrSIZE, rtm_addrs(received), 1,
                      BSD_RTA_GATEWAY, family, << >>).crash
    /\ ~SockaddrWalk(DeclaredRecord, RtMsghdrSIZE, rtm_addrs(received), 1,
                     BSD_RTA_GATEWAY, family, << >>).crash
    /\ ~SockaddrWalk(DeclaredRecord, RtMsghdrSIZE, rtm_addrs(received), 1,
                     RTA_DST, family, << >>).crash

\* the attribute's payload holds an address of the entry's family
HoldsAddress(a) == Len(a.vbuf) >= (IF hdr.family = AF_INET THEN 4 ELSE 16)

\* every attribute of an address entry has been collected, and one of them has
\* a payload shorter than an address of the entry's family
AtEntryWithShortAttr ==
  /\ query = "addr" /\ pc = "attr" /\ Len(abuf) < RtAttrSIZE
  /\ hdr.family \in { AF_INET, AF_INET6 }
  /\ \E k \in 1..Len(attrs) : ~HoldsAddress(attrs[k])

\* what the entry's other attributes yield
WithoutShortAttrs ==
  EmitAddrs(SelectSeq(attrs, HoldsAddress), PointToPoint(attrs), hdr, family, f,
            [ panic |-> FALSE, out |-> << >>, src |-> << >> ])

\* C29: in an address entry, an attribute whose payload is shorter than an
\* address of the entry's family is passed over, whatever its type: the call
\* does not fault on it, and the addresses of the entry's other attributes
\* are still appended to the result.
C29_ShortAttrSkipped ==
  [][ (AtEntryWithShortAttr /\ ~WithoutShortAttrs.panic) =>
        (status' # "panic" /\ addrs' = addrs \o WithoutShortAttrs.out) ]_vars

\* where the attribute cursor stands, counted from the start of the message
\* that is being decoded
AttrOffset == Len(received) - Len(abuf)

\* C28: the record decoded from a netlink message depends only on the bytes
\* inside the message's declared length: every attribute header the decoder
\* reads lies inside the message, never in the bytes that follow it.
C28_AttrsInsideMessage ==
  (query \in NetlinkQueries /\ pc = "attr" /\ Len(abuf) >= RtAttrSIZE) =>
    AttrOffset + RtAttrSIZE <= l

\* how many link messages a buffer of well-framed messages holds before its
\* terminator
RECURSIVE LinksBeforeDone(_)
LinksBeforeDone(buf) ==
  IF Len(buf) < NLMSG_HDRLEN THEN 0
  ELSE LET h == decode_nlmsghdr(buf)
       IN  IF h.nlmsg_type = NLMSG_DONE THEN 0
           ELSE (IF h.nlmsg_type = RTM_NEWLINK THEN 1 ELSE 0)
                  + LinksBeforeDone(Drop(buf, nlm_align_of(h.nlmsg_len)))

\* C22: a dump of well-formed link messages is decoded up to its terminator
\* and then returned: the call fails only when a system call fails, it returns
\* one Interface for every link message received before the terminator, and
\* nothing queued behind the terminator, in the same transmission or in a
\* later one, has any part in the result.
C22_DumpEndsAtDone ==
  /\ pc = "done" => status \in { "ok", "oserr" }
  /\ Len(interfaces) <= LinksBeforeDone(Concat(snapshot))
  /\ (pc = "done" /\ status = "ok") =>
        Len(interfaces) = LinksBeforeDone(Concat(snapshot))

\* the address is a network prefix: its last octet (IPv4) or its last eight
\* bytes (IPv6) are zero
TrailingZero(addr) ==
  IF Len(addr) = 4 THEN addr[4] = 0 ELSE AllZero(SubSeq(addr, 9, 16))

\* the network-route walk is about to decode a host route
AtHostRecord ==
  /\ query = "bsd_net" /\ pc = "rec"
  /\ Len(received) >= RtMsghdrSIZE
  /\ RecordCheck(received) = "take"
  /\ BitAnd(rtm_flags(received)[2], RTF_HOST) # 0

\* C24: the network-route extraction never returns an address taken from a
\* host route, and every address it returns has zero trailing bits: the last
\* octet of an IPv4 address, the last eight bytes of an IPv6 address.
C24_NetworkRoutesOnly ==
  /\ [](query = "bsd_net" =>
          \A k \in 1..Len(gateways) : TrailingZero(gateways[k].addr))
  /\ [][ AtHostRecord => (gateways' = gateways) ]_vars

\* a network address has been returned and the walk stands at a host route
\* whose destination ends in a zero octet
C24_Witness ==
  /\ AtHostRecord
  /\ received[RtMsghdrSIZE + 8] = 0
  /\ gateways # << >>

\* interfaces() on Windows is about to report an adapter whose Luid converts
\* to an index
AtConvertedAdapter ==
  /\ query = "win_link" /\ pc = "rec" /\ ifi = 0
  /\ received # << >>
  /\ ConvertInterfaceLuidToIndex(Head(received)).res = NO_ERROR

\* C26: the interface index reported for an adapter is the index its Luid
\* converts to, whenever the conversion succeeds.
C26_IndexIsConversionResult ==
  [][ AtConvertedAdapter =>
        /\ Len(interfaces') = Len(interfaces) + 1
        /\ interfaces'[Len(interfaces')].index
             = ConvertInterfaceLuidToIndex(Head(received)).index ]_vars

\* the interface indices of the link messages a buffer of well-framed
\* messages holds before its terminator, in order
RECURSIVE LinkIndices(_)
LinkIndices(buf) ==
  IF Len(buf) < NLMSG_HDRLEN THEN << >>
  ELSE LET h == decode_nlmsghdr(buf)
           rest == LinkIndices(Drop(buf, nlm_align_of(h.nlmsg_len)))
       IN  IF h.nlmsg_type = NLMSG_DONE THEN << >>
           ELSE IF h.nlmsg_type = RTM_NEWLINK
           THEN << IfInfoMessageHeader(Drop(buf, NLMSG_HDRLEN)).index >> \o rest
           ELSE rest

\* a call's result is the one the kernel's answer to its own request yields,
\* and what it has received and has yet to receive is part of that answer
OnItsOwn(ctx) ==
  /\ \A d \in { ctx.wire[k] : k \in 1..Len(ctx.wire) } :
       \E k \in 1..Len(ctx.snapshot) : d = ctx.snapshot[k]
  /\ ctx.received = << >>
       \/ \E k \in 1..Len(ctx.snapshot) : IsSuffix(ctx.received, ctx.snapshot[k])
  /\ (ctx.pc = "done" /\ ctx.status = "ok") =>
       [ k \in 1..Len(ctx.interfaces) |-> ctx.interfaces[k].index ]
         = LinkIndices(Concat(ctx.snapshot))

\* C21: two calls of interfaces() that run concurrently, each on its own
\* socket, do not disturb one another: in every interleaving each call only
\* receives what the kernel answered to its own request, and returns the
\* result that answer yields when the call runs alone.
C21_CallsIndependent ==
  other # NoContext => (OnItsOwn(Context) /\ OnItsOwn(other))

\* one call has returned its links while the other, whose dump is different,
\* is in the middle of decoding its own
C21_Witness ==
  /\ other # NoContext
  /\ pc = "done" /\ status = "ok" /\ interfaces # << >>
  /\ other.pc = "attr" /\ other.interface.index # interfaces[1].index
  /\ other.nl_pid # nl_pid

====
